---- MODULE Spec2Model ----
(***************************************************************************)
(* Model of the video processing pipeline of backend/app/services:         *)
(* upload_video, the background task _process_video with its two parallel  *)
(* analyses (Deepgram speech, TwelveLabs visual), the status record that    *)
(* polling clients read, the result assembly and the optional Gemini        *)
(* coaching report.                                                         *)
(*                                                                          *)
(* Python values are encoded as follows.  Optional[T] is a sequence of      *)
(* length at most one: None is <<>> and a present value x is <<x>>.  A dict *)
(* is a record; a key that is absent from the dict is a field that is       *)
(* absent from the record, and {} is the record without fields.  Seconds    *)
(* are integers.                                                            *)
(***************************************************************************)
EXTENDS Integers, Sequences, FiniteSets, TLC

\* Number of upload_video calls the model follows (each draws a fresh uuid4);
\* their runs go on concurrently.
MaxUploads == 2

VideoIds == 1..MaxUploads

None == <<>>
Some(x) == <<x>>
EmptyDict == [k \in {} |-> 0]

\* Python truthiness of an Optional[dict]: None and {} are falsy.
Truthy(opt) == opt # None /\ DOMAIN opt[1] # {}

\* dict.get(key, default)
Get(d, key, default) == IF key \in DOMAIN d THEN d[key] ELSE default

Max(a, b) == IF a >= b THEN a ELSE b
Min(a, b) == IF a <= b THEN a ELSE b

----------------------------------------------------------------------------
(* schemas.py *)

QUEUED == "queued"
PROCESSING == "processing"
COMPLETE == "complete"
ERROR == "error"

SeverityValues == {"HIGH", "MEDIUM", "LOW"}
DissonanceTypeValues == {"EMOTIONAL_MISMATCH", "MISSING_GESTURE", "PACING_MISMATCH"}

\* StatusResponse(videoId, status, progress, stage, etaSeconds=None, error=None)
StatusResponse(videoId, status, progress, stage, etaSeconds, error) ==
    [videoId |-> videoId, status |-> status, progress |-> progress,
     stage |-> stage, etaSeconds |-> etaSeconds, error |-> error]

\* Field constraints of AnalysisMetrics: a violated one makes the constructor raise.
AnalysisMetricsValid(m) ==
    /\ m.eyeContact >= 0 /\ m.eyeContact <= 100
    /\ m.fillerWords >= 0
    /\ m.fidgeting >= 0
    /\ m.speakingPace >= 0

\* Field constraints of DissonanceFlag (timestamp >= 0, endTimestamp >= 0 when present).
DissonanceFlagValid(f) ==
    /\ f.timestamp >= 0
    /\ (f.endTimestamp # None => f.endTimestamp[1] >= 0)

----------------------------------------------------------------------------
(* video_service.py: helpers *)

_get_score_tier(score) ==
    IF score >= 76 THEN "Strong"
    ELSE IF score >= 51 THEN "Good Start"
    ELSE "Needs Work"

\* The canned demonstration result.  Timestamps 45.2, 83.5, 135.8 are kept in
\* whole seconds (45, 83, 135); endTimestamp 48.0 and 149.8 as 48 and 149.
_generate_mock_result(video_id, duration) ==
    [videoId |-> video_id,
     durationSeconds |-> duration,
     coherenceScore |-> 67,
     scoreTier |-> "Good Start",
     metrics |-> [eyeContact |-> 62, fillerWords |-> 12, fidgeting |-> 8,
                  speakingPace |-> 156],
     dissonanceFlags |->
        << [id |-> "flag-1", timestamp |-> 45, endTimestamp |-> Some(48),
            type |-> "EMOTIONAL_MISMATCH", severity |-> "HIGH"],
           [id |-> "flag-2", timestamp |-> 83, endTimestamp |-> None,
            type |-> "MISSING_GESTURE", severity |-> "MEDIUM"],
           [id |-> "flag-3", timestamp |-> 135, endTimestamp |-> Some(149),
            type |-> "PACING_MISMATCH", severity |-> "HIGH"] >>,
     timelineHeatmap |->
        << [timestamp |-> 12, severity |-> "LOW"],
           [timestamp |-> 45, severity |-> "HIGH"],
           [timestamp |-> 83, severity |-> "MEDIUM"],
           [timestamp |-> 135, severity |-> "HIGH"] >>,
     geminiReport |-> None]

----------------------------------------------------------------------------
(* deepgram_service.py *)

extract_metrics_from_transcription(deepgram_data) ==
    LET metrics == Get(deepgram_data, "metrics", EmptyDict)
        filler_analysis == Get(metrics, "filler_analysis", EmptyDict)
    IN  [filler_word_count |-> Get(filler_analysis, "total_count", 0),
         speaking_pace_wpm |-> Get(metrics, "speaking_pace_wpm", 150),
         total_duration_seconds |-> Get(metrics, "total_duration_seconds", 0)]

----------------------------------------------------------------------------
(* twelvelabs_service.py *)

\* Penalty of the raw flags: 10 per HIGH, 5 per MEDIUM, 2 for anything else
\* (a flag without a severity counts as "LOW").
RECURSIVE FlagPenalty(_)
FlagPenalty(flags) ==
    IF flags = <<>> THEN 0
    ELSE LET severity == Get(Head(flags), "severity", "LOW")
         IN  (IF severity = "HIGH" THEN 10
              ELSE IF severity = "MEDIUM" THEN 5
              ELSE 2) + FlagPenalty(Tail(flags))

PaceScore(speaking_pace) ==
    IF 140 <= speaking_pace /\ speaking_pace <= 160 THEN 15
    ELSE IF 120 <= speaking_pace /\ speaking_pace <= 180 THEN 10
    ELSE IF 100 <= speaking_pace /\ speaking_pace <= 200 THEN 5
    ELSE 0

\* A score computed without the final clamp.
CalculateCoherenceScoreUnclamped(metrics, flags) ==
    LET eye_contact == Get(metrics, "eye_contact_percentage", 50)
        filler_words == Get(metrics, "filler_word_count", 10)
        fidgeting == Get(metrics, "fidgeting_count", 5)
        speaking_pace == Get(metrics, "speaking_pace_wpm", 150)
        base60 == eye_contact * 18
                  + Max(0, 20 - filler_words) * 75
                  + Max(0, 15 - fidgeting) * 80
                  + PaceScore(speaking_pace) * 60
        final60 == base60 - FlagPenalty(flags) * 60
    IN  IF final60 >= 0 THEN final60 \div 60 ELSE -((-final60) \div 60)

\* calculate_coherence_score.  The source adds eye/100*30, max(0,(20-f)/20)*25 and
\* max(0,(15-g)/15)*20; the sum is kept exactly here as a multiple of 1/60
\* (18/60 per eye-contact point, 75/60 per spared filler, 80/60 per spared
\* fidget), clamped to [0, 100] and truncated by int().
calculate_coherence_score(metrics, flags) ==
    LET eye_contact == Get(metrics, "eye_contact_percentage", 50)
        filler_words == Get(metrics, "filler_word_count", 10)
        fidgeting == Get(metrics, "fidgeting_count", 5)
        speaking_pace == Get(metrics, "speaking_pace_wpm", 150)
        base60 == eye_contact * 18
                  + Max(0, 20 - filler_words) * 75
                  + Max(0, 15 - fidgeting) * 80
                  + PaceScore(speaking_pace) * 60
        final60 == Max(0, Min(6000, base60 - FlagPenalty(flags) * 60))
    IN  final60 \div 60

\* _get_fallback_analysis: what analyze_presentation returns when the call or
\* the JSON parsing fails.
_get_fallback_analysis ==
    [duration_seconds |-> 120,
     metrics |-> [eye_contact_percentage |-> 60, filler_word_count |-> 10,
                  fidgeting_count |-> 5, speaking_pace_wpm |-> 150],
     dissonance_flags |->
        << [timestamp_seconds |-> 30, type |-> "EMOTIONAL_MISMATCH",
            severity |-> "MEDIUM"] >>]

----------------------------------------------------------------------------
(* video_service.py: result assembly *)

\* list.sort(key=lambda p: p.timestamp): stable, ascending.
RECURSIVE InsertByTimestamp(_, _)
InsertByTimestamp(p, sorted) ==
    IF sorted = <<>> THEN <<p>>
    ELSE IF p.timestamp < Head(sorted).timestamp THEN <<p>> \o sorted
    ELSE <<Head(sorted)>> \o InsertByTimestamp(p, Tail(sorted))

RECURSIVE SortByTimestamp(_)
SortByTimestamp(points) ==
    IF points = <<>> THEN <<>>
    ELSE InsertByTimestamp(points[Len(points)],
                           SortByTimestamp(SubSeq(points, 1, Len(points) - 1)))

\* Body of the loop over enumerate(raw_flags): flag number i (from 0).
ConvertFlag(i, flag) ==
    LET flag_type_str == Get(flag, "type", "EMOTIONAL_MISMATCH")
        severity_str == Get(flag, "severity", "MEDIUM")
        has_end == /\ "end_timestamp_seconds" \in DOMAIN flag
                   /\ flag.end_timestamp_seconds # 0
    IN  [id |-> "flag-" \o ToString(i + 1),
         timestamp |-> Get(flag, "timestamp_seconds", i * 30),
         endTimestamp |-> IF has_end THEN Some(flag.end_timestamp_seconds) ELSE None,
         type |-> IF flag_type_str \in DissonanceTypeValues
                  THEN flag_type_str ELSE "EMOTIONAL_MISMATCH",
         severity |-> IF severity_str \in SeverityValues
                      THEN severity_str ELSE "MEDIUM"]

TimelinePoint(flag) == [timestamp |-> flag.timestamp, severity |-> flag.severity]

\* What a call of an assembler gives: a result, or an exception (its message).
Returned(result) == [raised |-> None, value |-> Some(result)]
Raised(message) == [raised |-> Some(message), value |-> None]

\* Longest word list a transcription carries.
MaxWords == 22

\* A word of a transcription is its position in the list, followed by "." when
\* it closes a sentence: word.endswith(('.', '!', '?')) is membership in the
\* set of the closing words.
EndsSentence(word) == word \in {ToString(i) \o "." : i \in 1..(MaxWords + 1)}

\* A segment that is closed only when it has more than 10 words.
SegmentFullAfterTen(current_segment_words, word) ==
    Len(current_segment_words) > 10 \/ EndsSentence(word)

\* len(current_segment_words) >= 10 or is_sentence_end, after the append.
SegmentFull(current_segment_words, word) ==
    Len(current_segment_words) >= 10 \/ EndsSentence(word)

\* The loop over words and the flush after it.  A TranscriptSegment keeps, as
\* text, the list of words that " ".join makes its text from; its confidence
\* is left out.
RECURSIVE SegmentsFrom(_, _, _, _)
SegmentsFrom(words, current_segment_words, segment_start, last_word) ==
    IF words = <<>>
    THEN IF current_segment_words = <<>> THEN <<>>
         ELSE << [text |-> current_segment_words,
                  start |-> segment_start,
                  end |-> Get(last_word, "end", segment_start + 1)] >>
    ELSE LET word_data == Head(words)
             word == Get(word_data, "word", "")
             start == IF current_segment_words = <<>> THEN Get(word_data, "start", 0)
                      ELSE segment_start
             appended == Append(current_segment_words, word)
         IN  IF SegmentFull(appended, word)
             THEN << [text |-> appended, start |-> start,
                      end |-> Get(word_data, "end", 0)] >>
                  \o SegmentsFrom(Tail(words), <<>>, start, last_word)
             ELSE SegmentsFrom(Tail(words), appended, start, last_word)

\* The transcript of a result: the segments, or None without deepgram data or
\* words (an empty list and None are both <<>>).
TranscriptOf(deepgram_data) ==
    IF Truthy(deepgram_data) /\ Get(deepgram_data[1], "words", <<>>) # <<>>
    THEN LET words == deepgram_data[1].words
         IN  SegmentsFrom(words, <<>>, 0, words[Len(words)])
    ELSE None

\* A merge in which the visual payload's speech numbers win over Deepgram's.
MergeMetricsVisualFirst(tl_metrics, dg_metrics) ==
    [eyeContact |-> Get(tl_metrics, "eye_contact_percentage", 60),
     fillerWords |-> Get(tl_metrics, "filler_word_count",
                         Get(dg_metrics, "filler_word_count", 10)),
     fidgeting |-> Get(tl_metrics, "fidgeting_count", 5),
     speakingPace |-> Get(tl_metrics, "speaking_pace_wpm",
                          Get(dg_metrics, "speaking_pace_wpm", 150))]

\* The arguments of AnalysisMetrics(...) in _convert_analysis_to_result:
\* Deepgram for speech, TwelveLabs for visual.
MergeMetrics(tl_metrics, dg_metrics) ==
    [eyeContact |-> Get(tl_metrics, "eye_contact_percentage", 60),
     fillerWords |-> Get(dg_metrics, "filler_word_count",
                         Get(tl_metrics, "filler_word_count", 10)),
     fidgeting |-> Get(tl_metrics, "fidgeting_count", 5),
     speakingPace |-> Get(dg_metrics, "speaking_pace_wpm",
                          Get(tl_metrics, "speaking_pace_wpm", 150))]

\* _convert_analysis_to_result.  twelvelabs_data and deepgram_data are
\* Optional[dict].  The constructors of AnalysisMetrics and DissonanceFlag raise
\* a validation error on a value outside their field constraints.
_convert_analysis_to_result(video_id, twelvelabs_data, deepgram_data) ==
    LET dg_metrics == IF Truthy(deepgram_data)
                      THEN extract_metrics_from_transcription(deepgram_data[1])
                      ELSE EmptyDict
        tl == IF Truthy(twelvelabs_data) THEN twelvelabs_data[1] ELSE EmptyDict
        tl_metrics == Get(tl, "metrics", EmptyDict)
        metrics == MergeMetrics(tl_metrics, dg_metrics)
        raw_flags == Get(tl, "dissonance_flags", <<>>)
        dissonance_flags == [i \in 1..Len(raw_flags) |-> ConvertFlag(i - 1, raw_flags[i])]
        timeline_points == [i \in 1..Len(raw_flags) |-> TimelinePoint(dissonance_flags[i])]
        merged_metrics_for_score ==
            [eye_contact_percentage |-> metrics.eyeContact,
             filler_word_count |-> metrics.fillerWords,
             fidgeting_count |-> metrics.fidgeting,
             speaking_pace_wpm |-> metrics.speakingPace]
        coherence_score == calculate_coherence_score(merged_metrics_for_score, raw_flags)
        dg_duration == Get(dg_metrics, "total_duration_seconds", 0)
        duration == IF dg_duration = 0 /\ Truthy(twelvelabs_data)
                    THEN Get(tl, "duration_seconds", 120)
                    ELSE dg_duration
    IN  IF ~AnalysisMetricsValid(metrics)
        THEN Raised("validation error for AnalysisMetrics")
        ELSE IF \E i \in 1..Len(raw_flags) : ~DissonanceFlagValid(dissonance_flags[i])
        THEN Raised("validation error for DissonanceFlag")
        ELSE Returned(
            [videoId |-> video_id,
             durationSeconds |-> IF duration > 0 THEN duration ELSE 120,
             coherenceScore |-> coherence_score,
             scoreTier |-> _get_score_tier(coherence_score),
             metrics |-> metrics,
             dissonanceFlags |-> dissonance_flags,
             timelineHeatmap |-> SortByTimestamp(timeline_points),
             transcript |-> TranscriptOf(deepgram_data),
             geminiReport |-> None])

\* _convert_deepgram_only_result: speech metrics with the visual defaults 50 and 5.
_convert_deepgram_only_result(video_id, deepgram_data) ==
    LET dg_metrics == extract_metrics_from_transcription(deepgram_data)
        metrics ==
            [eyeContact |-> 50,
             fillerWords |-> Get(dg_metrics, "filler_word_count", 10),
             fidgeting |-> 5,
             speakingPace |-> Get(dg_metrics, "speaking_pace_wpm", 150)]
        filler_flags ==
            IF metrics.fillerWords > 15
            THEN << [id |-> "flag-filler", timestamp |-> 30, endTimestamp |-> None,
                     type |-> "PACING_MISMATCH", severity |-> "MEDIUM"] >>
            ELSE <<>>
        pace_flags ==
            IF metrics.speakingPace < 120
            THEN << [id |-> "flag-pace-slow", timestamp |-> 60, endTimestamp |-> None,
                     type |-> "PACING_MISMATCH", severity |-> "LOW"] >>
            ELSE IF metrics.speakingPace > 180
            THEN << [id |-> "flag-pace-fast", timestamp |-> 60, endTimestamp |-> None,
                     type |-> "PACING_MISMATCH", severity |-> "MEDIUM"] >>
            ELSE <<>>
        dissonance_flags == filler_flags \o pace_flags
        duration == Get(dg_metrics, "total_duration_seconds", 120)
        filler_penalty == Min(20, metrics.fillerWords)
        pace_score == IF 140 <= metrics.speakingPace /\ metrics.speakingPace <= 160 THEN 15
                      ELSE IF 120 <= metrics.speakingPace /\ metrics.speakingPace <= 180
                      THEN 10 ELSE 5
        coherence_score == Max(30, 70 - filler_penalty + pace_score)
    IN  IF ~AnalysisMetricsValid(metrics)
        THEN Raised("validation error for AnalysisMetrics")
        ELSE Returned(
            [videoId |-> video_id,
             durationSeconds |-> IF duration > 0 THEN duration ELSE 120,
             coherenceScore |-> coherence_score,
             scoreTier |-> _get_score_tier(coherence_score),
             metrics |-> metrics,
             dissonanceFlags |-> dissonance_flags,
             timelineHeatmap |->
                [i \in 1..Len(dissonance_flags) |-> TimelinePoint(dissonance_flags[i])],
             transcript |-> TranscriptOf(Some(deepgram_data)),
             geminiReport |-> None])

----------------------------------------------------------------------------
(* What the external services may answer *)

\* TranscriptionResult.to_dict(): the part of the payload the pipeline reads.
DeepgramPayload(fillers, pace, duration) ==
    [metrics |-> [filler_analysis |-> [total_count |-> fillers],
                  speaking_pace_wpm |-> pace,
                  total_duration_seconds |-> duration]]

DeepgramPayloads == {DeepgramPayload(12, 150, 95), DeepgramPayload(22, 110, 0)}

\* A well-formed answer of client.analyze: 62% eye contact, 8 fidgets, one HIGH
\* and one MEDIUM issue, reported out of time order.
GoodAnalysis ==
    [duration_seconds |-> 100,
     metrics |-> [eye_contact_percentage |-> 62, filler_word_count |-> 9,
                  fidgeting_count |-> 8, speaking_pace_wpm |-> 170],
     dissonance_flags |->
        << [timestamp_seconds |-> 70, end_timestamp_seconds |-> 75,
            type |-> "MISSING_GESTURE", severity |-> "HIGH"],
           [timestamp_seconds |-> 20, type |-> "PACING_MISMATCH",
            severity |-> "MEDIUM"] >>]

\* An answer that parses as JSON but breaks a field constraint of the schema.
OutOfRangeAnalysis ==
    [duration_seconds |-> 100,
     metrics |-> [eye_contact_percentage |-> 150, filler_word_count |-> 9,
                  fidgeting_count |-> 8, speaking_pace_wpm |-> 170],
     dissonance_flags |-> <<>>]

\* json.loads of the service's text: any JSON object, among them {} and the
\* canned payload that analyze_presentation substitutes on failure.
TwelveLabsPayloads == {GoodAnalysis, _get_fallback_analysis, EmptyDict, OutOfRangeAnalysis}

\* Task statuses client.tasks.wait_for_done may see before the task is done,
\* and the two that end the wait.
PendingTaskStatuses == {"validating", "pending", "queued", "indexing", "uploading"}
DoneTaskStatuses == {"ready", "failed"}

GeminiOutcomes == {"report", "none", "raise"}

----------------------------------------------------------------------------
(* State *)

VARIABLES
    twelvelabs_available,   \* TWELVELABS_IMPORTED and _is_twelvelabs_available()
    deepgram_available,     \* DEEPGRAM_IMPORTED and _is_deepgram_available()
    gemini_available,       \* GEMINI_IMPORTED and is_gemini_available()
    video_storage,          \* _video_storage: id -> Optional[metadata]
    status_storage,         \* _status_storage: id -> Optional[StatusResponse]
    results_storage,        \* _results_storage: id -> Optional[AnalysisResult]
    analysis_cache,         \* _analysis_cache: id -> Optional[dict]
    pc,                     \* position of the task _process_video(id)
    stage_index,            \* _process_video: position in mock_stages
    dg_pc,                  \* position of _run_deepgram_analysis
    tl_pc,                  \* position of _run_twelvelabs_analysis
    deepgram_result,        \* _process_video: deepgram_result
    twelvelabs_result,      \* _process_video: twelvelabs_result
    settle_order,           \* history: the analysis tasks in the order they got done
    result,                 \* _process_video: result
    call,                   \* the function or route called from outside, with its arguments
    returned                \* what that call answered

services == <<twelvelabs_available, deepgram_available, gemini_available>>
storage == <<video_storage, status_storage, results_storage, analysis_cache>>
analyses == <<dg_pc, tl_pc, deepgram_result, twelvelabs_result, settle_order>>
calls == <<call, returned>>
vars == <<services, storage, pc, stage_index, analyses, result, calls>>

\* No upload yet: the module-level dicts are empty and no task exists.
NothingUploaded ==
    /\ video_storage = [v \in VideoIds |-> None]
    /\ status_storage = [v \in VideoIds |-> None]
    /\ results_storage = [v \in VideoIds |-> None]
    /\ analysis_cache = [v \in VideoIds |-> None]
    /\ pc = [v \in VideoIds |-> "unborn"]
    /\ stage_index = [v \in VideoIds |-> 0]
    /\ dg_pc = [v \in VideoIds |-> "idle"]
    /\ tl_pc = [v \in VideoIds |-> "idle"]
    /\ deepgram_result = [v \in VideoIds |-> None]
    /\ twelvelabs_result = [v \in VideoIds |-> None]
    /\ settle_order = [v \in VideoIds |-> <<>>]
    /\ result = [v \in VideoIds |-> None]

Init ==
    /\ twelvelabs_available \in BOOLEAN
    /\ deepgram_available \in BOOLEAN
    /\ gemini_available \in BOOLEAN
    /\ NothingUploaded
    /\ call = None
    /\ returned = None

----------------------------------------------------------------------------
(* video_service.py: status record *)

\* A status update that patches progress, stage and ETA into the record that
\* is there.
UpdateStatusPatch(storage_, video_id, progress, stage, eta) ==
    [storage_ EXCEPT ![video_id] =
        Some([storage_[video_id][1] EXCEPT !.progress = progress, !.stage = stage,
                                           !.etaSeconds = eta])]

\* _update_status: replaces the whole record.
_update_status(storage_, video_id, progress, stage, eta) ==
    [storage_ EXCEPT ![video_id] =
        Some(StatusResponse(video_id,
                            IF progress < 100 THEN PROCESSING ELSE COMPLETE,
                            progress, stage, eta, None))]

\* A handler that patches the record in place: only status and error are set.
ProcessingFailedPatch(storage_, video_id, message) ==
    [storage_ EXCEPT ![video_id] =
        Some([storage_[video_id][1] EXCEPT !.status = ERROR, !.error = Some(message)])]

\* The handler of the outer try of _process_video.
ProcessingFailed(storage_, video_id, message) ==
    [storage_ EXCEPT ![video_id] =
        Some(StatusResponse(video_id, ERROR, 0, "Processing failed", None, Some(message)))]

\* A callback that is not bound to its own run: it writes the stage into the
\* record of every run that is being processed.
OnTwelvelabsStatusOfAnyRun(storage_, video_id, status) ==
    [u \in VideoIds |->
        IF storage_[u] # None /\ storage_[u][1].status = PROCESSING /\ status = "indexing"
        THEN Some(StatusResponse(u, PROCESSING, 30, "Analyzing video content...",
                                 Some(55), None))
        ELSE storage_[u]]

\* _process_video.on_twelvelabs_status: the callback handed to the visual service.
on_twelvelabs_status(storage_, video_id, status) ==
    IF status = "uploading"
    THEN _update_status(storage_, video_id, 15, "Uploading to TwelveLabs...", Some(75))
    ELSE IF status = "indexing"
    THEN _update_status(storage_, video_id, 30, "Analyzing video content...", Some(55))
    ELSE IF status = "validating"
    THEN _update_status(storage_, video_id, 40, "Validating video...", Some(45))
    ELSE storage_

mock_stages ==
    << [progress |-> 10, stage |-> "Preparing video...", eta |-> 40],
       [progress |-> 30, stage |-> "Analyzing content...", eta |-> 30],
       [progress |-> 60, stage |-> "Detecting patterns...", eta |-> 20],
       [progress |-> 85, stage |-> "Generating insights...", eta |-> 10] >>

----------------------------------------------------------------------------
(* video_service.py: upload_video and the background task _process_video *)

\* upload_video: a fresh id, its metadata, the Queued record, and the task.
upload_video(v) ==
    /\ pc[v] = "unborn"
    /\ \A u \in VideoIds : u < v => pc[u] # "unborn"
    /\ video_storage' = [video_storage EXCEPT ![v] = Some([id |-> v])]
    /\ status_storage' = [status_storage EXCEPT ![v] =
            Some(StatusResponse(v, QUEUED, 0, "Queued for processing...", Some(45), None))]
    /\ pc' = [pc EXCEPT ![v] = "start"]
    /\ UNCHANGED <<calls, services, results_storage, analysis_cache, stage_index, analyses, result>>

\* _process_video up to the choice between mock and parallel processing.
ProcessStart(v) ==
    /\ pc[v] = "start"
    /\ IF video_storage[v] = None
       THEN /\ status_storage' = [status_storage EXCEPT ![v] =
                    Some(StatusResponse(v, ERROR, 0, "Video not found", None,
                                        Some("Video metadata not found")))]
            /\ pc' = [pc EXCEPT ![v] = "done"]
            /\ UNCHANGED stage_index
       ELSE /\ UNCHANGED status_storage
            /\ IF ~twelvelabs_available /\ ~deepgram_available
               THEN /\ pc' = [pc EXCEPT ![v] = "mock"]
                    /\ stage_index' = [stage_index EXCEPT ![v] = 1]
               ELSE /\ pc' = [pc EXCEPT ![v] = "starting"]
                    /\ UNCHANGED stage_index
    /\ UNCHANGED <<calls, services, video_storage, results_storage, analysis_cache, analyses, result>>

\* One round of the loop over mock_stages: the status write, then the sleep.
MockStage(v) ==
    /\ pc[v] = "mock"
    /\ stage_index[v] <= Len(mock_stages)
    /\ LET s == mock_stages[stage_index[v]]
       IN  status_storage' = _update_status(status_storage, v, s.progress, s.stage, Some(s.eta))
    /\ stage_index' = [stage_index EXCEPT ![v] = @ + 1]
    /\ UNCHANGED <<calls, services, video_storage, results_storage, analysis_cache, pc, analyses, result>>

\* After the loop: the canned result (video_meta has no "duration": 120).
MockResult(v) ==
    /\ pc[v] = "mock"
    /\ stage_index[v] > Len(mock_stages)
    /\ result' = [result EXCEPT ![v] = Some(_generate_mock_result(v, 120))]
    /\ pc' = [pc EXCEPT ![v] = "store"]
    /\ UNCHANGED <<calls, services, storage, stage_index, analyses>>

\* _update_status(video_id, 5, "Starting analysis...", 90)
StartAnalysis(v) ==
    /\ pc[v] = "starting"
    /\ status_storage' = _update_status(status_storage, v, 5, "Starting analysis...", Some(90))
    /\ pc' = [pc EXCEPT ![v] = "launch"]
    /\ UNCHANGED <<calls, services, video_storage, results_storage, analysis_cache, stage_index,
                   analyses, result>>

\* The 10% write, then both coroutines are handed to asyncio.gather.
LaunchAnalyses(v) ==
    /\ pc[v] = "launch"
    /\ status_storage' = _update_status(status_storage, v, 10,
                            "Transcribing speech & analyzing video...", Some(80))
    /\ dg_pc' = [dg_pc EXCEPT ![v] = "start"]
    /\ tl_pc' = [tl_pc EXCEPT ![v] = "start"]
    /\ pc' = [pc EXCEPT ![v] = "gather"]
    /\ UNCHANGED <<calls, services, video_storage, results_storage, analysis_cache, stage_index,
                   deepgram_result, twelvelabs_result, settle_order, result>>

----------------------------------------------------------------------------
(* _run_deepgram_analysis *)

DeepgramStart(v) ==
    /\ dg_pc[v] = "start"
    /\ dg_pc' = [dg_pc EXCEPT ![v] = IF deepgram_available THEN "transcribing" ELSE "done"]
    /\ deepgram_result' = [deepgram_result EXCEPT ![v] = None]
    /\ settle_order' = IF deepgram_available THEN settle_order
                       ELSE [settle_order EXCEPT ![v] = Append(@, "deepgram")]
    /\ UNCHANGED <<calls, services, storage, pc, stage_index, tl_pc, twelvelabs_result, result>>

\* transcribe_video returns a payload, returns None, or raises (caught: None).
DeepgramReturn(v) ==
    /\ dg_pc[v] = "transcribing"
    /\ \E outcome \in {Raised("transcription failed"), Returned(None)}
                      \cup {Returned(Some(p)) : p \in DeepgramPayloads} :
          deepgram_result' = [deepgram_result EXCEPT ![v] =
                IF outcome.raised # None THEN None ELSE outcome.value[1]]
    /\ dg_pc' = [dg_pc EXCEPT ![v] = "done"]
    /\ settle_order' = [settle_order EXCEPT ![v] = Append(@, "deepgram")]
    /\ UNCHANGED <<calls, services, storage, pc, stage_index, tl_pc, twelvelabs_result, result>>

----------------------------------------------------------------------------
(* _run_twelvelabs_analysis and twelvelabs_service.upload_and_index_video *)

\* An exception that ends the coroutine without the task ever being done.
TwelveLabsFailedUnsettled(v) ==
    /\ twelvelabs_result' = [twelvelabs_result EXCEPT ![v] = None]
    /\ tl_pc' = [tl_pc EXCEPT ![v] = "crashed"]
    /\ UNCHANGED settle_order

\* The except clause of _run_twelvelabs_analysis: the source becomes None.
TwelveLabsFailed(v) ==
    /\ twelvelabs_result' = [twelvelabs_result EXCEPT ![v] = None]
    /\ tl_pc' = [tl_pc EXCEPT ![v] = "done"]
    /\ settle_order' = [settle_order EXCEPT ![v] = Append(@, "twelvelabs")]

TwelveLabsStart(v) ==
    /\ tl_pc[v] = "start"
    /\ IF twelvelabs_available
       THEN /\ tl_pc' = [tl_pc EXCEPT ![v] = "index"]
            /\ UNCHANGED <<twelvelabs_result, settle_order>>
       ELSE TwelveLabsFailed(v)
    /\ UNCHANGED <<calls, services, storage, pc, stage_index, dg_pc, deepgram_result, result>>

\* await get_or_create_index(): an index id, or an exception.
TwelveLabsIndex(v) ==
    /\ tl_pc[v] = "index"
    /\ \E raises \in BOOLEAN :
          IF raises
          THEN TwelveLabsFailed(v)
          ELSE /\ tl_pc' = [tl_pc EXCEPT ![v] = "upload"]
               /\ UNCHANGED <<twelvelabs_result, settle_order>>
    /\ UNCHANGED <<calls, services, storage, pc, stage_index, dg_pc, deepgram_result, result>>

\* _sync_upload up to client.tasks.create: the task, or an exception.
TwelveLabsCreateTask(v) ==
    /\ tl_pc[v] = "upload"
    /\ \E raises \in BOOLEAN :
          IF raises
          THEN TwelveLabsFailed(v)
          ELSE /\ tl_pc' = [tl_pc EXCEPT ![v] = "waiting"]
               /\ UNCHANGED <<twelvelabs_result, settle_order>>
    /\ UNCHANGED <<calls, services, storage, pc, stage_index, dg_pc, deepgram_result, result>>

\* client.tasks.wait_for_done(task.id, sleep_interval=5, callback=status_callback):
\* one round in which the task is not done yet.  status_callback hands the
\* status to on_status_update from the executor thread.
WaitForDonePending(v) ==
    /\ tl_pc[v] = "waiting"
    /\ \E status \in PendingTaskStatuses :
          status_storage' = on_twelvelabs_status(status_storage, v, status)
    /\ UNCHANGED <<calls, services, video_storage, results_storage, analysis_cache, pc, stage_index,
                   analyses, result>>

\* wait_for_done returns: "ready" gives the video id (stored in the metadata),
\* any other final status raises RuntimeError.
WaitForDoneReturn(v) ==
    /\ tl_pc[v] = "waiting"
    /\ \E status \in DoneTaskStatuses :
          IF status # "ready"
          THEN /\ TwelveLabsFailed(v)
               /\ UNCHANGED video_storage
          ELSE /\ video_storage' = [video_storage EXCEPT ![v] =
                        Some([id |-> v, twelvelabs_video_id |-> v])]
               /\ tl_pc' = [tl_pc EXCEPT ![v] = "analyze"]
               /\ UNCHANGED <<twelvelabs_result, settle_order>>
    /\ UNCHANGED <<calls, services, status_storage, results_storage, analysis_cache, pc, stage_index,
                   dg_pc, deepgram_result, result>>

\* await analyze_presentation(): some JSON object (the canned fallback on a
\* failed call), or an exception.
TwelveLabsAnalyze(v) ==
    /\ tl_pc[v] = "analyze"
    /\ \E outcome \in {Raised("analysis failed")}
                      \cup {Returned(p) : p \in TwelveLabsPayloads} :
          twelvelabs_result' = [twelvelabs_result EXCEPT ![v] =
                IF outcome.raised # None THEN None ELSE outcome.value]
    /\ tl_pc' = [tl_pc EXCEPT ![v] = "done"]
    /\ settle_order' = [settle_order EXCEPT ![v] = Append(@, "twelvelabs")]
    /\ UNCHANGED <<calls, services, storage, pc, stage_index, dg_pc, deepgram_result, result>>

----------------------------------------------------------------------------
(* _process_video after the analyses were launched *)

\* A wait that returns with the first task that is done.
GatherReturnsFirstCompleted(v) == dg_pc[v] = "done" \/ tl_pc[v] = "done"

\* A wait that is cut short by the first task that fails.
GatherReturnsOnFailure(v) ==
    \/ dg_pc[v] = "done" /\ tl_pc[v] = "done"
    \/ dg_pc[v] = "done" /\ deepgram_result[v] = None
    \/ tl_pc[v] = "done" /\ twelvelabs_result[v] = None

\* asyncio.gather(deepgram_task, twelvelabs_task, return_exceptions=True)
\* returns when both tasks are done.
GatherReturns(v) == dg_pc[v] = "done" /\ tl_pc[v] = "done"

\* gather returns; both payloads are cached for the coaching report.
Gather(v) ==
    /\ pc[v] = "gather"
    /\ GatherReturns(v)
    /\ analysis_cache' = [analysis_cache EXCEPT ![v] =
            Some([deepgram_data |-> deepgram_result[v],
                  twelvelabs_data |-> twelvelabs_result[v],
                  gemini_report |-> None])]
    /\ pc' = [pc EXCEPT ![v] = "merge"]
    /\ UNCHANGED <<calls, services, video_storage, status_storage, results_storage, stage_index,
                   analyses, result>>

\* _update_status(video_id, 70, "Merging analysis results...", 20)
StartMerge(v) ==
    /\ pc[v] = "merge"
    /\ status_storage' = _update_status(status_storage, v, 70,
                            "Merging analysis results...", Some(20))
    /\ pc' = [pc EXCEPT ![v] = "select"]
    /\ UNCHANGED <<calls, services, video_storage, results_storage, analysis_cache, stage_index,
                   analyses, result>>

\* if twelvelabs_result: the visual payload is the base of the result.
MergedBranch(v) ==
    /\ status_storage' = _update_status(status_storage, v, 80,
                            "Generating insights...", Some(15))
    /\ pc' = [pc EXCEPT ![v] = "convert_merged"]
    /\ UNCHANGED result

\* The canned result.
MockFallback(v) ==
    /\ result' = [result EXCEPT ![v] = Some(_generate_mock_result(v, 120))]
    /\ pc' = [pc EXCEPT ![v] = "gemini"]
    /\ UNCHANGED status_storage

\* A pipeline without the speech-only assembler: the canned result instead.
SpeechOnlyBranchMissing(v) == MockFallback(v)

\* elif deepgram_result: the speech payload alone.
SpeechOnlyBranch(v) ==
    /\ status_storage' = _update_status(status_storage, v, 80,
                            "Generating insights from speech...", Some(15))
    /\ pc' = [pc EXCEPT ![v] = "convert_speech"]
    /\ UNCHANGED result

\* A pipeline that gives up when it has no source.
FallbackBranchRaises(v) ==
    /\ status_storage' = ProcessingFailed(status_storage, v, "no analysis data")
    /\ pc' = [pc EXCEPT ![v] = "done"]
    /\ UNCHANGED result

\* else: both analyses failed, the canned result is used.
FallbackBranch(v) == MockFallback(v)

\* A merge whose base is the source that settled first.
SelectSourceBySettleOrder(v) ==
    /\ pc[v] = "select"
    /\ IF Truthy(deepgram_result[v]) /\ Head(settle_order[v]) = "deepgram"
       THEN SpeechOnlyBranch(v)
       ELSE IF Truthy(twelvelabs_result[v]) THEN MergedBranch(v)
       ELSE IF Truthy(deepgram_result[v]) THEN SpeechOnlyBranch(v)
       ELSE FallbackBranch(v)
    /\ UNCHANGED <<calls, services, video_storage, results_storage, analysis_cache, stage_index,
                   analyses>>

\* if twelvelabs_result / elif deepgram_result / else, with the 80% write of
\* the chosen branch.
SelectSource(v) ==
    /\ pc[v] = "select"
    /\ IF Truthy(twelvelabs_result[v]) THEN MergedBranch(v)
       ELSE IF Truthy(deepgram_result[v]) THEN SpeechOnlyBranch(v)
       ELSE FallbackBranch(v)
    /\ UNCHANGED <<calls, services, video_storage, results_storage, analysis_cache, stage_index,
                   analyses>>

\* The assembler's answer r: its result, or its exception, which nothing
\* catches before the outer handler of _process_video.
Assembled(v, r) ==
    IF r.raised # None
    THEN /\ status_storage' = ProcessingFailed(status_storage, v, r.raised[1])
         /\ pc' = [pc EXCEPT ![v] = "done"]
         /\ UNCHANGED result
    ELSE /\ result' = [result EXCEPT ![v] = r.value]
         /\ pc' = [pc EXCEPT ![v] = "gemini"]
         /\ UNCHANGED status_storage

ConvertMerged(v) ==
    /\ pc[v] = "convert_merged"
    /\ Assembled(v, _convert_analysis_to_result(v, twelvelabs_result[v], deepgram_result[v]))
    /\ UNCHANGED <<calls, services, video_storage, results_storage, analysis_cache, stage_index,
                   analyses>>

ConvertSpeech(v) ==
    /\ pc[v] = "convert_speech"
    /\ Assembled(v, _convert_deepgram_only_result(v, deepgram_result[v][1]))
    /\ UNCHANGED <<calls, services, video_storage, results_storage, analysis_cache, stage_index,
                   analyses>>

\* if gemini_available and (deepgram_result or twelvelabs_result): the 90% write.
GeminiCheck(v) ==
    /\ pc[v] = "gemini"
    /\ IF gemini_available /\ (Truthy(deepgram_result[v]) \/ Truthy(twelvelabs_result[v]))
       THEN /\ status_storage' = _update_status(status_storage, v, 90,
                                    "Generating comprehensive coaching report...", Some(8))
            /\ pc' = [pc EXCEPT ![v] = "gemini_call"]
       ELSE /\ pc' = [pc EXCEPT ![v] = "store"]
            /\ UNCHANGED status_storage
    /\ UNCHANGED <<calls, services, video_storage, results_storage, analysis_cache, stage_index,
                   analyses, result>>

\* if gemini_report: the report is attached to the result and cached.
ReportAttached(v) ==
    /\ result' = [result EXCEPT ![v] =
            Some([result[v][1] EXCEPT !.geminiReport = Some("report")])]
    /\ analysis_cache' = [analysis_cache EXCEPT ![v] =
            Some([analysis_cache[v][1] EXCEPT !.gemini_report = Some("report")])]
    /\ pc' = [pc EXCEPT ![v] = "store"]
    /\ UNCHANGED status_storage

\* An exception of the report step that reaches the outer handler.
ReportFailedUncaught(v) ==
    /\ status_storage' = ProcessingFailed(status_storage, v, "report generation failed")
    /\ pc' = [pc EXCEPT ![v] = "done"]
    /\ UNCHANGED <<result, analysis_cache>>

\* except Exception: the failure is logged, the run goes on without a report.
ReportFailed(v) ==
    /\ pc' = [pc EXCEPT ![v] = "store"]
    /\ UNCHANGED <<result, analysis_cache, status_storage>>

\* await generate_coaching_report() inside its own try: a report, None, or an
\* exception.
GeminiReturn(v) ==
    /\ pc[v] = "gemini_call"
    /\ \E outcome \in GeminiOutcomes :
          IF outcome = "report" THEN ReportAttached(v)
          ELSE IF outcome = "none"
          THEN /\ pc' = [pc EXCEPT ![v] = "store"]
               /\ UNCHANGED <<result, analysis_cache, status_storage>>
          ELSE ReportFailed(v)
    /\ UNCHANGED <<calls, services, video_storage, results_storage, stage_index, analyses>>

\* A completion that writes the status and leaves the result store alone.
CompleteWithoutResult(v) ==
    /\ pc[v] = "store"
    /\ status_storage' = _update_status(status_storage, v, 100, "Analysis complete!", None)
    /\ pc' = [pc EXCEPT ![v] = "done"]
    /\ UNCHANGED <<calls, services, video_storage, results_storage, analysis_cache,
                   stage_index, analyses, result>>

\* _results_storage[video_id] = result; _update_status(video_id, 100, ...)
Complete(v) ==
    /\ pc[v] = "store"
    /\ results_storage' = [results_storage EXCEPT ![v] = result[v]]
    /\ status_storage' = _update_status(status_storage, v, 100, "Analysis complete!", None)
    /\ pc' = [pc EXCEPT ![v] = "done"]
    /\ UNCHANGED <<calls, services, video_storage, analysis_cache, stage_index, analyses, result>>

----------------------------------------------------------------------------

(* Scheduling.  The event loop runs every task that can go on, and the      *)
(* executor thread of upload_and_index_video keeps polling.  Whether the    *)
(* visual service ever reports a final task status is up to the service.    *)

OrchestratorStep(v) ==
    \/ ProcessStart(v) \/ MockStage(v) \/ MockResult(v) \/ StartAnalysis(v)
    \/ LaunchAnalyses(v) \/ Gather(v) \/ StartMerge(v) \/ SelectSource(v)
    \/ ConvertMerged(v) \/ ConvertSpeech(v) \/ GeminiCheck(v) \/ GeminiReturn(v)
    \/ Complete(v)

DeepgramStep(v) == DeepgramStart(v) \/ DeepgramReturn(v)

TwelveLabsStep(v) ==
    \/ TwelveLabsStart(v) \/ TwelveLabsIndex(v) \/ TwelveLabsCreateTask(v)
    \/ WaitForDonePending(v) \/ WaitForDoneReturn(v) \/ TwelveLabsAnalyze(v)

\* All steps of the run of one video id.
Run(v) ==
    \/ upload_video(v)
    \/ OrchestratorStep(v)
    \/ DeepgramStep(v)
    \/ TwelveLabsStep(v)

Next == \E v \in VideoIds : Run(v)

Spec == Init /\ [][Next]_vars

TasksRun(v) ==
    /\ WF_vars(OrchestratorStep(v))
    /\ WF_vars(DeepgramStep(v))
    /\ WF_vars(TwelveLabsStep(v))

\* One run, followed for ever: every task runs, but the indexing task of the
\* visual service may stay unfinished.
PollingSpec == Init /\ [][Run(1)]_vars /\ TasksRun(1)

\* One run in which, besides, every external call returns or raises: in
\* particular wait_for_done sees a final task status at some point.
ReturningSpec == Init /\ [][Run(1)]_vars /\ TasksRun(1) /\ WF_vars(WaitForDoneReturn(1))

----------------------------------------------------------------------------
(* Properties *)

StatusOf(v) == status_storage[v][1]
HasStatus(v, s) == status_storage[v] # None /\ StatusOf(v).status = s
Terminal(v) == HasStatus(v, COMPLETE) \/ HasStatus(v, ERROR)

\* The run of v went the parallel way: its two analyses were launched.
Launched(v) == dg_pc[v] # "idle"

\* C1: the status record of a run starts Queued, leaves Queued only for
\* Processing, is never changed again once it is Complete or Error, and never
\* goes back to Queued.
C1_StatusOrder ==
    [][\A v \in VideoIds :
         LET old == status_storage[v]
             new == status_storage'[v]
         IN  /\ (old = None /\ new # None) => new[1].status = QUEUED
             /\ old # None => new # None
             /\ (old # None /\ old[1].status \in {COMPLETE, ERROR}) => new = old
             /\ (old # None /\ old[1].status # QUEUED) => new[1].status # QUEUED
             /\ (old # None /\ old[1].status = QUEUED /\ new # old)
                    => new[1].status = PROCESSING]_vars

\* A run ended in Error after its visual task had been polling and its speech
\* task had delivered a payload.
C1_Witness ==
    \E v \in VideoIds :
        /\ HasStatus(v, ERROR)
        /\ Launched(v)
        /\ "twelvelabs_video_id" \in DOMAIN video_storage[v][1]
        /\ Truthy(deepgram_result[v])

\* C2: when every external call returns or raises, every submitted video gets
\* the status Complete or Error.
C2_RunTerminates ==
    \A v \in VideoIds : (status_storage[v] # None) ~> Terminal(v)

\* A run is over after its visual task had waited for the indexing and its
\* speech task had called the transcription.
C2_Witness ==
    \E v \in VideoIds :
        /\ Terminal(v)
        /\ pc[v] = "done"
        /\ "twelvelabs_video_id" \in DOMAIN video_storage[v][1]
        /\ deepgram_available

\* C3: a run whose visual task waits for the indexing ends in Complete or
\* Error even if the service never reports a final task status.
C3_IndexingWaitBounded ==
    \A v \in VideoIds : (tl_pc[v] = "waiting") ~> Terminal(v)

\* C4: while a run does not fail, every write of its status record leaves the
\* progress where it was or raises it, whatever statuses the visual service
\* reports and in whatever order.
C4_ProgressNeverDecreases ==
    [][\A v \in VideoIds :
         (status_storage[v] # None /\ ~HasStatus(v, ERROR)'
            => StatusOf(v)'.progress >= StatusOf(v).progress)]_vars

\* C5: from one status record of a run to the next the ETA never goes up, and
\* the record of a completed run carries the ETA 0.
C5_EtaDecreasesToZero ==
    [][\A v \in VideoIds :
         LET old == status_storage[v]
             new == status_storage'[v]
         IN  (old # None /\ new # old /\ new[1].status # ERROR) =>
                /\ new[1].status = COMPLETE => new[1].etaSeconds = Some(0)
                /\ (old[1].etaSeconds # None /\ new[1].etaSeconds # None)
                      => new[1].etaSeconds[1] <= old[1].etaSeconds[1]]_vars

\* The run of v is past asyncio.gather: it is at the 70% write or beyond it.
PastGather(v) == Launched(v) /\ pc[v] # "gather"

\* C6: a run is at the merge step or beyond it (its status shows 70% or more
\* of the parallel pipeline) only when both analyses have settled.
C6_MergeAfterBothSettled ==
    \A v \in VideoIds :
        PastGather(v) => dg_pc[v] = "done" /\ tl_pc[v] = "done"

\* The speech analysis failed first and the run is merging with the payload
\* the visual analysis delivered afterwards.
C6_Witness ==
    \E v \in VideoIds :
        /\ pc[v] = "select"
        /\ StatusOf(v).progress = 70
        /\ deepgram_result[v] = None
        /\ twelvelabs_result[v] = Some(GoodAnalysis)

\* The result a finished run has stored, without its coaching report.
StoredResult(v) == [results_storage[v][1] EXCEPT !.geminiReport = None]

\* The visual payload is one the assembler turns into a result.
UsableVisual(v) ==
    /\ Truthy(twelvelabs_result[v])
    /\ _convert_analysis_to_result(v, twelvelabs_result[v], None).raised = None

C8_ErrorOnlyFromException ==
    \A v \in VideoIds :
        HasStatus(v, ERROR) =>
            /\ pc[v] = "done"
            /\ result[v] = None
            /\ _convert_analysis_to_result(v, twelvelabs_result[v],
                                           deepgram_result[v]).raised # None
            /\ status_storage[v] =
                    Some(StatusResponse(v, ERROR, 0, "Processing failed", None,
                            _convert_analysis_to_result(v, twelvelabs_result[v],
                                                        deepgram_result[v]).raised))

\* A run in Error whose visual payload broke the schema.
C8_Witness ==
    \E v \in VideoIds :
        /\ HasStatus(v, ERROR)
        /\ twelvelabs_result[v] = Some(OutOfRangeAnalysis)
        /\ StatusOf(v).error = Some("validation error for AnalysisMetrics")

\* C9: a run that has reached the coaching-report step always carries its
\* assembled result, is never in Error, and once it is over it is Complete
\* with that result stored, with or without a report.
C9_ReportIsNotCritical ==
    \A v \in VideoIds :
        /\ pc[v] \in {"gemini", "gemini_call", "store"}
              => result[v] # None /\ HasStatus(v, PROCESSING)
        /\ (pc[v] = "done" /\ result[v] # None)
              => /\ HasStatus(v, COMPLETE)
                 /\ results_storage[v] = result[v]
                 /\ analysis_cache[v] # None =>
                        analysis_cache[v][1].gemini_report = result[v][1].geminiReport

\* The report step ran and gave nothing (None or an exception): the run is
\* Complete and its result has no report.
C9_Witness ==
    \E v \in VideoIds :
        /\ pc[v] = "done"
        /\ gemini_available
        /\ Truthy(deepgram_result[v]) \/ Truthy(twelvelabs_result[v])
        /\ HasStatus(v, COMPLETE)
        /\ results_storage[v] # None
        /\ results_storage[v][1].geminiReport = None

\* C10: a finished run whose two sources are both falsy (services absent,
\* analyses failed, or an empty payload) is Complete and has stored the canned
\* result: score 67 and the three fixed flags, under its own video id.
C10_FallbackWhenNoSource ==
    \A v \in VideoIds :
        (pc[v] = "done" /\ ~Truthy(deepgram_result[v]) /\ ~Truthy(twelvelabs_result[v]))
            => /\ HasStatus(v, COMPLETE)
               /\ results_storage[v] = Some(_generate_mock_result(v, 120))
               /\ results_storage[v][1].videoId = v
               /\ results_storage[v][1].coherenceScore = 67
               /\ [i \in 1..3 |-> results_storage[v][1].dissonanceFlags[i].id]
                     = <<"flag-1", "flag-2", "flag-3">>

\* Both services were there and both analyses failed; the run is over.
C10_Witness ==
    \E v \in VideoIds :
        /\ pc[v] = "done"
        /\ twelvelabs_available /\ deepgram_available
        /\ deepgram_result[v] = None
        /\ twelvelabs_result[v] = None
        /\ HasStatus(v, COMPLETE)

\* What the merge step of _process_video makes of a pair of payloads: the
\* answer of the assembler its if/elif/else picks.
MergeOf(v, twelvelabs_data, deepgram_data) ==
    IF Truthy(twelvelabs_data)
    THEN _convert_analysis_to_result(v, twelvelabs_data, deepgram_data)
    ELSE IF Truthy(deepgram_data)
    THEN _convert_deepgram_only_result(v, deepgram_data[1])
    ELSE Returned(_generate_mock_result(v, 120))

\* C11: the status record and the stored result of a finished run are fixed
\* by the pair of payloads its two analyses gave, whichever of the two tasks
\* got done first.
C11_OrderOfCompletionIrrelevant ==
    \A v \in VideoIds :
        (pc[v] = "done" /\ Launched(v)) =>
            LET merged == MergeOf(v, twelvelabs_result[v], deepgram_result[v])
            IN  IF merged.raised # None
                THEN /\ status_storage[v] =
                            Some(StatusResponse(v, ERROR, 0, "Processing failed", None,
                                                merged.raised))
                     /\ results_storage[v] = None
                ELSE /\ status_storage[v] =
                            Some(StatusResponse(v, COMPLETE, 100, "Analysis complete!",
                                                None, None))
                     /\ results_storage[v] # None
                     /\ Some(StoredResult(v)) = merged.value

\* Both analyses delivered a payload, the speech task was done first, and the
\* run is over with the merged result.
C11_Witness ==
    \E v \in VideoIds :
        /\ pc[v] = "done"
        /\ settle_order[v] = <<"deepgram", "twelvelabs">>
        /\ Truthy(deepgram_result[v])
        /\ twelvelabs_result[v] = Some(GoodAnalysis)
        /\ HasStatus(v, COMPLETE)
        /\ results_storage[v][1].metrics.eyeContact = 62

\* C12: a step of the run of one video id leaves the status record, the
\* stored result and the cached payloads of every other id as they were.
C12_RunsAreIndependent ==
    [][\A a \in VideoIds :
         Run(a) => \A b \in VideoIds \ {a} :
                      /\ status_storage'[b] = status_storage[b]
                      /\ results_storage'[b] = results_storage[b]
                      /\ analysis_cache'[b] = analysis_cache[b]]_vars

\* Two runs side by side: one has failed in its Error handler after caching
\* its payloads, the other is still waiting for the indexing and its record
\* shows what its own callback wrote.
C12_Witness ==
    \E a, b \in VideoIds :
        /\ a # b
        /\ HasStatus(a, ERROR)
        /\ analysis_cache[a] # None
        /\ tl_pc[b] = "waiting"
        /\ HasStatus(b, PROCESSING)
        /\ StatusOf(b).progress = 40
        /\ analysis_cache[b] = None

----------------------------------------------------------------------------
(* gemini/synthesis.py *)

\* int(x) of a quotient n/d with d > 0: truncation towards zero.
IntDiv(n, d) == IF n >= 0 THEN n \div d ELSE -((-n) \div d)

\* The four point scores of synthesis.calculate_coherence_score; the same
\* eye, filler and fidget formulas are used by preprocess_samples._calculate_score.
EyeScore(eye_contact_pct) == Min(30, IntDiv(eye_contact_pct * 30, 100))

FillerScore(filler_count) ==
    IF filler_count <= 5 THEN 25
    ELSE IF filler_count >= 20 THEN 0
    ELSE Max(0, IntDiv((20 - filler_count) * 25, 15))

FidgetScore(fidget_count) ==
    IF fidget_count <= 3 THEN 20
    ELSE IF fidget_count >= 15 THEN 0
    ELSE Max(0, IntDiv((15 - fidget_count) * 20, 12))

\* A pace curve whose branch above the band repeats the one below it.
SynthesisPaceScoreCopied(speaking_pace_wpm) ==
    IF 140 <= speaking_pace_wpm /\ speaking_pace_wpm <= 160 THEN 15
    ELSE IF 120 <= speaking_pace_wpm /\ speaking_pace_wpm < 140
    THEN 10 + IntDiv((speaking_pace_wpm - 120) * 5, 20)
    ELSE IF 160 < speaking_pace_wpm /\ speaking_pace_wpm <= 180
    THEN 10 + IntDiv((speaking_pace_wpm - 160) * 5, 20)
    ELSE IF speaking_pace_wpm < 120
    THEN Max(0, IntDiv(speaking_pace_wpm * 10, 120))
    ELSE Max(0, 10 - IntDiv((speaking_pace_wpm - 180) * 10, 20))

SynthesisPaceScore(speaking_pace_wpm) ==
    IF 140 <= speaking_pace_wpm /\ speaking_pace_wpm <= 160 THEN 15
    ELSE IF 120 <= speaking_pace_wpm /\ speaking_pace_wpm < 140
    THEN 10 + IntDiv((speaking_pace_wpm - 120) * 5, 20)
    ELSE IF 160 < speaking_pace_wpm /\ speaking_pace_wpm <= 180
    THEN 15 - IntDiv((speaking_pace_wpm - 160) * 5, 20)
    ELSE IF speaking_pace_wpm < 120
    THEN Max(0, IntDiv(speaking_pace_wpm * 10, 120))
    ELSE Max(0, 10 - IntDiv((speaking_pace_wpm - 180) * 10, 20))

\* synthesis.calculate_coherence_score: the total (the breakdown is not kept).
synthesis_calculate_coherence_score(eye_contact_pct, filler_count, fidget_count, speaking_pace_wpm, critical_flag_count) ==
    LET dissonance_penalty == critical_flag_count * (-10)
        total_score == EyeScore(eye_contact_pct) + FillerScore(filler_count)
                       + FidgetScore(fidget_count)
                       + SynthesisPaceScore(speaking_pace_wpm) + dissonance_penalty
    IN  Max(0, Min(100, total_score))

----------------------------------------------------------------------------
(* preprocess_samples.py: what the sample cache files are made of *)

preprocess_get_score_tier(score) ==
    IF score >= 76 THEN "Strong"
    ELSE IF score >= 51 THEN "Good Start"
    ELSE "Needs Work"

\* _extract_metrics: the AnalysisMetrics fields before validation.
_extract_metrics(deepgram_data, twelvelabs_data) ==
    LET has_dm == Truthy(deepgram_data) /\ "metrics" \in DOMAIN deepgram_data[1]
        dm == IF has_dm THEN deepgram_data[1].metrics ELSE EmptyDict
        has_tm == Truthy(twelvelabs_data) /\ "metrics" \in DOMAIN twelvelabs_data[1]
        tm == IF has_tm THEN twelvelabs_data[1].metrics ELSE EmptyDict
    IN  [eyeContact |-> IF has_tm THEN Get(tm, "eye_contact_percentage", 70) ELSE 70,
         fillerWords |-> IF has_dm
                         THEN Get(Get(dm, "filler_analysis", EmptyDict), "total_count", 0)
                         ELSE 0,
         fidgeting |-> IF has_tm THEN Get(tm, "fidgeting_count", 0) ELSE 0,
         speakingPace |-> IF has_dm THEN Get(dm, "speaking_pace_wpm", 150) ELSE 150]

\* a.get(k1) or a.get(k2) or 0, for numbers.
GetOr(f, k1, k2) ==
    IF Get(f, k1, 0) # 0 THEN f[k1] ELSE Get(f, k2, 0)

\* Body of the loop of _extract_flags over enumerate(raw_flags[:10]): the
\* flag, or None when a constructor raised (the except clause logs and goes on).
ExtractFlag(i, f) ==
    LET timestamp == GetOr(f, "timestamp_seconds", "timestamp")
        end_timestamp == IF GetOr(f, "end_timestamp_seconds", "endTimestamp") # 0
                         THEN GetOr(f, "end_timestamp_seconds", "endTimestamp")
                         ELSE Get(f, "end_timestamp", 0)
        type == Get(f, "type", "EMOTIONAL_MISMATCH")
        severity == Get(f, "severity", "MEDIUM")
        flag == [id |-> Get(f, "id", "flag-" \o ToString(i + 1)),
                 timestamp |-> timestamp,
                 endTimestamp |-> IF end_timestamp # 0 THEN Some(end_timestamp) ELSE None,
                 type |-> type,
                 severity |-> severity]
    IN  IF /\ type \in DissonanceTypeValues
           /\ severity \in SeverityValues
           /\ DissonanceFlagValid(flag)
        THEN Some(flag) ELSE None

RECURSIVE ExtractFlagsFrom(_, _)
ExtractFlagsFrom(i, raw_flags) ==
    IF raw_flags = <<>> THEN <<>>
    ELSE ExtractFlag(i, Head(raw_flags)) \o ExtractFlagsFrom(i + 1, Tail(raw_flags))

_extract_flags(twelvelabs_data) ==
    IF ~Truthy(twelvelabs_data) THEN <<>>
    ELSE LET raw_flags == Get(twelvelabs_data[1], "dissonance_flags", <<>>)
         IN  ExtractFlagsFrom(0, SubSeq(raw_flags, 1, Min(10, Len(raw_flags))))

\* _calculate_score(metrics, flags): metrics is a validated AnalysisMetrics,
\* flags the extracted DissonanceFlag list.
_calculate_score(metrics, flags) ==
    LET pace_score ==
            IF 140 <= metrics.speakingPace /\ metrics.speakingPace <= 160 THEN 15
            ELSE IF \/ 120 <= metrics.speakingPace /\ metrics.speakingPace < 140
                    \/ 160 < metrics.speakingPace /\ metrics.speakingPace <= 180
            THEN 10 ELSE 5
        high_flags == Cardinality({i \in 1..Len(flags) : flags[i].severity = "HIGH"})
        medium_flags == Cardinality({i \in 1..Len(flags) : flags[i].severity = "MEDIUM"})
        penalty == high_flags * 10 + medium_flags * 5
        total == EyeScore(metrics.eyeContact) + FillerScore(metrics.fillerWords)
                 + FidgetScore(metrics.fidgeting) + pace_score - penalty
    IN  Max(0, Min(100, total))

\* _create_timeline: one point per flag, sorted by timestamp.
_create_timeline(flags) ==
    SortByTimestamp([i \in 1..Len(flags) |-> TimelinePoint(flags[i])])

\* One flag of _generate_coaching_flags_from_metrics, at a percentage of the
\* duration (duration * 0.25 and so on, in whole seconds).
MetricFlag(flag_id, duration, percent, type, severity) ==
    [id |-> "metric-flag-" \o ToString(flag_id),
     timestamp |-> (duration * percent) \div 100,
     endTimestamp |-> None, type |-> type, severity |-> severity]

\* The flags of the four threshold checks, in the order of the checks.
ThresholdFlags(metrics, duration) ==
    LET eye == IF metrics.eyeContact < 90
               THEN << MetricFlag(1, duration, 25, "EMOTIONAL_MISMATCH",
                          IF metrics.eyeContact >= 70 THEN "LOW"
                          ELSE IF metrics.eyeContact >= 50 THEN "MEDIUM" ELSE "HIGH") >>
               ELSE <<>>
        filler == IF metrics.fillerWords > 3
                  THEN << MetricFlag(Len(eye) + 1, duration, 40, "PACING_MISMATCH",
                             IF metrics.fillerWords <= 5 THEN "LOW"
                             ELSE IF metrics.fillerWords <= 10 THEN "MEDIUM" ELSE "HIGH") >>
                  ELSE <<>>
        fidget == IF metrics.fidgeting > 2
                  THEN << MetricFlag(Len(eye \o filler) + 1, duration, 50, "MISSING_GESTURE",
                             IF metrics.fidgeting <= 3 THEN "LOW"
                             ELSE IF metrics.fidgeting <= 6 THEN "MEDIUM" ELSE "HIGH") >>
                  ELSE <<>>
        pace == IF metrics.speakingPace < 130
                THEN << MetricFlag(Len(eye \o filler \o fidget) + 1, duration, 60,
                           "PACING_MISMATCH",
                           IF metrics.speakingPace >= 110 THEN "LOW" ELSE "MEDIUM") >>
                ELSE IF metrics.speakingPace > 170
                THEN << MetricFlag(Len(eye \o filler \o fidget) + 1, duration, 60,
                           "PACING_MISMATCH",
                           IF metrics.speakingPace <= 180 THEN "LOW" ELSE "MEDIUM") >>
                ELSE <<>>
    IN  eye \o filler \o fidget \o pace

\* A synthesizer without the closing "if not flags" tip.
GenerateCoachingFlagsWithoutTip(metrics, duration) == ThresholdFlags(metrics, duration)

_generate_coaching_flags_from_metrics(metrics, duration) ==
    LET flags == ThresholdFlags(metrics, duration)
    IN  IF flags = <<>>
        THEN << MetricFlag(1, duration, 30, "EMOTIONAL_MISMATCH", "LOW") >>
        ELSE flags

\* preprocess_samples._extract_transcript: the same loop and flush.
_extract_transcript(deepgram_data) ==
    IF Truthy(deepgram_data) /\ Get(deepgram_data[1], "words", <<>>) # <<>>
    THEN LET words == deepgram_data[1].words
         IN  SegmentsFrom(words, <<>>, 0, words[Len(words)])
    ELSE <<>>

\* A penalty taken from the flags that are shown.
PenaltyFlagsShown(twelvelabs_flags, flags) == flags

\* The flags process_video hands to _calculate_score: a second
\* _extract_flags(twelvelabs_result), whatever the shown flags are.
PenaltyFlags(twelvelabs_flags, flags) == twelvelabs_flags

\* preprocess_samples.process_video from "Building analysis result" on: the
\* result that process_sample saves with save_cached_result, or the exception
\* of the AnalysisMetrics constructor.
process_video(sample_id, dg_result, tl_result, gemini_report) ==
    LET metrics == _extract_metrics(dg_result, tl_result)
        duration == IF Truthy(dg_result) /\ "metrics" \in DOMAIN dg_result[1]
                    THEN Get(dg_result[1].metrics, "total_duration_seconds", 120)
                    ELSE 120
        twelvelabs_flags == _extract_flags(tl_result)
        flags == IF twelvelabs_flags = <<>>
                 THEN _generate_coaching_flags_from_metrics(metrics, duration)
                 ELSE twelvelabs_flags
        score == _calculate_score(metrics, PenaltyFlags(twelvelabs_flags, flags))
    IN  IF ~AnalysisMetricsValid(metrics)
        THEN Raised("validation error for AnalysisMetrics")
        ELSE Returned(
            [videoId |-> sample_id,
             durationSeconds |-> duration,
             coherenceScore |-> score,
             scoreTier |-> preprocess_get_score_tier(score),
             metrics |-> metrics,
             dissonanceFlags |-> flags,
             timelineHeatmap |-> _create_timeline(flags),
             transcript |-> _extract_transcript(dg_result),
             geminiReport |-> gemini_report])

----------------------------------------------------------------------------
(* video_service.py: sample videos and the readers *)

\* Video ids are numbers here: uploads count from 1, and the sample ids
\* "sample-1", "sample-2", "sample-3" are -1, -2, -3.
SAMPLE_VIDEOS ==
    (-1 :> [expected_score |-> 81, duration |-> 120])
    @@ (-2 :> [expected_score |-> 42, duration |-> 180])
    @@ (-3 :> [expected_score |-> 59, duration |-> 150])

\* The video ids clients ask about.
RequestIds == VideoIds \cup DOMAIN SAMPLE_VIDEOS

\* video_id in SAMPLE_VIDEOS
IsSample(video_id) == video_id \in DOMAIN SAMPLE_VIDEOS

\* What data/cache/<sample_id>_result.json can hold: a result process_sample
\* saved for that sample.
CachedResults(sample_id) ==
    LET saved == {process_video(sample_id, d, t, None) :
                    d \in {None, Some(DeepgramPayload(12, 150, 95))},
                    t \in {None, Some(GoodAnalysis), Some(_get_fallback_analysis)}}
    IN  {r.value[1] : r \in {x \in saved : x.raised = None}}

\* A fallback that sets the expected score and leaves the tier of the canned
\* result.
GenerateSampleResultKeepsTier(sample_id, cached) ==
    IF cached # None THEN cached[1]
    ELSE [_generate_mock_result(sample_id, SAMPLE_VIDEOS[sample_id].duration)
            EXCEPT !.coherenceScore = SAMPLE_VIDEOS[sample_id].expected_score]

\* _generate_sample_result; cached is what _load_cached_result gave.
_generate_sample_result(sample_id, cached) ==
    IF cached # None THEN cached[1]
    ELSE LET sample == SAMPLE_VIDEOS[sample_id]
         IN  [_generate_mock_result(sample_id, sample.duration)
                EXCEPT !.coherenceScore = sample.expected_score,
                       !.scoreTier = _get_score_tier(sample.expected_score)]

\* video_service.get_video_status: _status_storage.get(video_id)
get_video_status(video_id) ==
    IF video_id \in VideoIds THEN status_storage[video_id] ELSE None

\* video_service.get_video_results
get_video_results(video_id, cached) ==
    IF IsSample(video_id)
    THEN Some(_generate_sample_result(video_id, cached))
    ELSE IF video_id \in VideoIds THEN results_storage[video_id] ELSE None

----------------------------------------------------------------------------
(* routers/videos.py *)

HTTPException(status_code, error) == [status_code |-> status_code, error |-> error]
Ok(body) == [status_code |-> 200, body |-> body]

\* A handler that looks only at the result store.
AnswerFromResultsOnly(video_id, status, results) ==
    IF results = None THEN HTTPException(404, "Results not found") ELSE Ok(results[1])

\* The answer of GET /{video_id}/results, from the status record and the
\* result the service gave.
Answer(video_id, status, results) ==
    IF status = None /\ ~IsSample(video_id)
    THEN HTTPException(404, "Video not found")
    ELSE IF status # None /\ status[1].status \notin {"complete", "error"}
    THEN HTTPException(425, "Video is still being processed")
    ELSE IF results = None
    THEN HTTPException(404, "Results not found")
    ELSE Ok(results[1])

\* routers.videos.get_video_results: both service calls return without
\* suspending, so the handler is one step of the event loop.
router_get_video_results(video_id) ==
    /\ \E cached \in {None} \cup
                       (IF IsSample(video_id)
                        THEN {Some(r) : r \in CachedResults(video_id)} ELSE {}) :
          returned' = Some(Answer(video_id, get_video_status(video_id),
                                  get_video_results(video_id, cached)))
    /\ call' = Some([fn |-> "get_video_results", video_id |-> video_id])
    /\ UNCHANGED <<services, storage, pc, stage_index, analyses, result>>

\* One upload and its run, with clients that ask for results at any moment,
\* for the uploaded id, for an id that was never uploaded and for the samples.
ReaderNext ==
    \/ Run(1)
    \/ \E video_id \in RequestIds : router_get_video_results(video_id)

ReaderSpec == Init /\ [][ReaderNext]_vars

\* The last request was for results of video_id, and this is its answer.
Asked(video_id) ==
    call # None /\ call[1] = [fn |-> "get_video_results", video_id |-> video_id]

\* C13: the answer to a request for the results of an uploaded id that came
\* while the record was Queued or Processing is 425 (not yet complete); an
\* answer given while it was Complete is the stored result; an id without a
\* record gets 404; and a result is answered only for a completed run.
C13_ResultsOnlyWhenComplete ==
    [][\A v \in VideoIds :
         Asked(v)' /\ returned' # returned =>
            LET answer == returned'[1]
            IN  /\ (HasStatus(v, QUEUED) \/ HasStatus(v, PROCESSING))
                      => answer.status_code = 425
                /\ HasStatus(v, COMPLETE)
                      => answer = Ok(results_storage[v][1])
                /\ status_storage[v] = None => answer.status_code = 404
                /\ answer.status_code = 200
                      => HasStatus(v, COMPLETE) /\ pc[v] = "done"]_vars

\* A client got the merged result of a run that had completed.
C13_Witness ==
    /\ Asked(1)
    /\ HasStatus(1, COMPLETE)
    /\ returned = Some(Ok(results_storage[1][1]))
    /\ twelvelabs_result[1] = Some(GoodAnalysis)

----------------------------------------------------------------------------
(* Direct calls of the assemblers *)

\* Longest list of issues in a visual payload.
MaxFlags == 2

\* Issues as the visual service may write them: well-formed ones, one with a
\* type and one with a severity outside the enums, one with JSON null for
\* both, one without any field, one with a negative timestamp, one that ends
\* before it starts.
RawIssues ==
    { [timestamp_seconds |-> 70, end_timestamp_seconds |-> 75,
       type |-> "MISSING_GESTURE", severity |-> "HIGH"],
      [timestamp_seconds |-> 50, end_timestamp_seconds |-> 40,
       type |-> "PACING_MISMATCH", severity |-> "HIGH"],
      [timestamp_seconds |-> 20, type |-> "PACING_MISMATCH", severity |-> "MEDIUM"],
      [timestamp_seconds |-> 20, type |-> "GAZE_DRIFT", severity |-> "LOW"],
      [timestamp_seconds |-> 45, type |-> "EMOTIONAL_MISMATCH", severity |-> "CRITICAL"],
      [timestamp_seconds |-> 10, type |-> "null", severity |-> "null"],
      EmptyDict,
      [timestamp_seconds |-> -5, type |-> "MISSING_GESTURE", severity |-> "LOW"] }

RawFlagLists == UNION {[1..n -> RawIssues] : n \in 0..MaxFlags}

\* Longest list of issues of one kind in a visual payload.
MaxIssues == 12

\* Ten and more issues, ten seconds apart.
LongFlagLists ==
    {[i \in 1..n |-> [timestamp_seconds |-> 10 * i, type |-> "MISSING_GESTURE",
                      severity |-> "LOW"]] : n \in 10..MaxIssues}

\* The "metrics" object of a visual payload with any of its four fields missing.
VisualMetrics == {[k \in present |-> GoodAnalysis.metrics[k]] :
                    present \in SUBSET DOMAIN GoodAnalysis.metrics}

VisualPayloads ==
    {[duration_seconds |-> 100, metrics |-> m,
      dissonance_flags |-> GoodAnalysis.dissonance_flags] : m \in VisualMetrics}
    \cup {[duration_seconds |-> 100, metrics |-> GoodAnalysis.metrics,
           dissonance_flags |-> fs] : fs \in RawFlagLists \cup LongFlagLists}
    \cup {[duration_seconds |-> 100]}
    \cup (TwelveLabsPayloads \ {EmptyDict})

\* Transcriptions, among them one without filler analysis and pace and one
\* without "metrics".
SpeechPayloads ==
    DeepgramPayloads
    \cup {DeepgramPayload(0, 200, 60), [metrics |-> EmptyDict], [transcript |-> "hello"]}

\* The calls _process_video can make: the merged assembler with a truthy
\* visual payload, the speech-only assembler with a truthy speech payload, the
\* canned result.
AssemblerCalls ==
    {[fn |-> "_convert_analysis_to_result", twelvelabs_data |-> Some(t), deepgram_data |-> d] :
        t \in VisualPayloads, d \in {None} \cup {Some(x) : x \in SpeechPayloads}}
    \cup {[fn |-> "_convert_deepgram_only_result", deepgram_data |-> Some(d)] :
            d \in SpeechPayloads}
    \cup {[fn |-> "_generate_mock_result"]}

\* The calls preprocess_samples makes of its own assembler.
PreprocessCalls ==
    {[fn |-> "process_video", twelvelabs_data |-> t, deepgram_data |-> d] :
        t \in {None} \cup {Some(x) : x \in VisualPayloads},
        d \in {None, Some(DeepgramPayload(12, 150, 95))}}
    \cup {[fn |-> "_extract_flags", twelvelabs_data |-> Some(t)] : t \in VisualPayloads}
    \cup {[fn |-> "_generate_coaching_flags_from_metrics",
            metrics |-> [eyeContact |-> e, fillerWords |-> f, fidgeting |-> g,
                         speakingPace |-> p],
            duration |-> d] :
            e \in {49, 69, 89, 90}, f \in {3, 4, 6, 11}, g \in {2, 3, 4, 7},
            p \in {109, 129, 130, 170, 171, 181}, d \in {100, 120}}

Calling(fn) == call # None /\ call[1].fn = fn /\ returned = None

Return(value) ==
    /\ returned' = Some(value)
    /\ UNCHANGED <<call, services, storage, pc, stage_index, analyses, result>>

CallConvertAnalysisToResult ==
    /\ Calling("_convert_analysis_to_result")
    /\ Return(_convert_analysis_to_result(1, call[1].twelvelabs_data, call[1].deepgram_data))

CallConvertDeepgramOnlyResult ==
    /\ Calling("_convert_deepgram_only_result")
    /\ Return(_convert_deepgram_only_result(1, call[1].deepgram_data[1]))

CallGenerateMockResult ==
    /\ Calling("_generate_mock_result")
    /\ Return(Returned(_generate_mock_result(1, 120)))

CallProcessVideo ==
    /\ Calling("process_video")
    /\ Return(process_video(-1, call[1].deepgram_data, call[1].twelvelabs_data, None))

CallExtractFlags ==
    /\ Calling("_extract_flags")
    /\ Return(Returned(_extract_flags(call[1].twelvelabs_data)))

CallGenerateCoachingFlags ==
    /\ Calling("_generate_coaching_flags_from_metrics")
    /\ Return(Returned(_generate_coaching_flags_from_metrics(call[1].metrics,
                                                             call[1].duration)))

\* Both service modules are imported; nothing is uploaded; one call is made.
InitCall(calls_) ==
    /\ twelvelabs_available = TRUE
    /\ deepgram_available = TRUE
    /\ gemini_available = TRUE
    /\ NothingUploaded
    /\ call \in {Some(c) : c \in calls_}
    /\ returned = None

AssemblyNext ==
    \/ CallConvertAnalysisToResult
    \/ CallConvertDeepgramOnlyResult
    \/ CallGenerateMockResult
    \/ CallProcessVideo
    \/ CallExtractFlags
    \/ CallGenerateCoachingFlags

InitAssembly == InitCall(AssemblerCalls \cup PreprocessCalls)

AssemblySpec == InitAssembly /\ [][AssemblyNext]_vars

\* The call fn has returned a result (it did not raise).
Gave(fn) ==
    /\ call # None /\ call[1].fn = fn
    /\ returned # None /\ returned[1].raised = None

Result == returned[1].value[1]

\* The speech numbers a transcription carries, if it carries them.
SpeechHas(d, field) ==
    /\ "metrics" \in DOMAIN d
    /\ IF field = "fillers"
       THEN /\ "filler_analysis" \in DOMAIN d.metrics
            /\ "total_count" \in DOMAIN d.metrics.filler_analysis
       ELSE "speaking_pace_wpm" \in DOMAIN d.metrics

\* C14: in a result of the merged or of the speech-only assembler, fillerWords
\* and speakingPace are the transcription's numbers when speech data is there
\* (0 fillers and 150 WPM for a number the transcription lacks); without
\* speech data they are the visual payload's numbers when it carries them,
\* and 10 and 150 otherwise.
C14_SpeechNumbersFirst ==
    /\ Gave("_convert_analysis_to_result") =>
          LET d == call[1].deepgram_data
              t == call[1].twelvelabs_data[1]
              tm == IF "metrics" \in DOMAIN t THEN t.metrics ELSE EmptyDict
          IN  IF Truthy(d)
              THEN /\ Result.metrics.fillerWords =
                        (IF SpeechHas(d[1], "fillers")
                         THEN d[1].metrics.filler_analysis.total_count ELSE 0)
                   /\ Result.metrics.speakingPace =
                        (IF SpeechHas(d[1], "pace")
                         THEN d[1].metrics.speaking_pace_wpm ELSE 150)
              ELSE /\ Result.metrics.fillerWords =
                        (IF "filler_word_count" \in DOMAIN tm
                         THEN tm.filler_word_count ELSE 10)
                   /\ Result.metrics.speakingPace =
                        (IF "speaking_pace_wpm" \in DOMAIN tm
                         THEN tm.speaking_pace_wpm ELSE 150)
    /\ Gave("_convert_deepgram_only_result") =>
          LET d == call[1].deepgram_data[1]
          IN  /\ Result.metrics.fillerWords =
                    (IF SpeechHas(d, "fillers")
                     THEN d.metrics.filler_analysis.total_count ELSE 0)
              /\ Result.metrics.speakingPace =
                    (IF SpeechHas(d, "pace") THEN d.metrics.speaking_pace_wpm ELSE 150)

\* The merged assembler was given 12 fillers at 150 WPM by the transcription
\* and 9 fillers at 170 WPM by the visual payload, and kept the former.
C14_Witness ==
    /\ Gave("_convert_analysis_to_result")
    /\ call[1].deepgram_data = Some(DeepgramPayload(12, 150, 95))
    /\ call[1].twelvelabs_data = Some(GoodAnalysis)
    /\ Result.metrics.fillerWords = 12
    /\ Result.metrics.speakingPace = 150

\* C15: in a result of the merged or of the speech-only assembler, eyeContact
\* and fidgeting are the visual payload's numbers when it supplies them and
\* 60 and 5 otherwise, also when there is no visual payload at all; and an
\* assembler raises only on a number that is present.
C15_VisualNumbersOrDefaults ==
    /\ Gave("_convert_analysis_to_result") =>
          LET t == call[1].twelvelabs_data[1]
              tm == IF "metrics" \in DOMAIN t THEN t.metrics ELSE EmptyDict
          IN  /\ Result.metrics.eyeContact =
                    (IF "eye_contact_percentage" \in DOMAIN tm
                     THEN tm.eye_contact_percentage ELSE 60)
              /\ Result.metrics.fidgeting =
                    (IF "fidgeting_count" \in DOMAIN tm THEN tm.fidgeting_count ELSE 5)
    /\ Gave("_convert_deepgram_only_result") =>
          /\ Result.metrics.eyeContact = 60
          /\ Result.metrics.fidgeting = 5
    /\ (/\ call # None
         /\ call[1].fn = "_convert_deepgram_only_result"
         /\ returned # None) => returned[1].raised = None

\* The pairs (timestamp, severity) of a list of flags or of timeline points.
Pairs(list) == [i \in 1..Len(list) |-> <<list[i].timestamp, list[i].severity>>]

\* How often a pair occurs in a list of pairs.
Count(pair, pairs) == Cardinality({i \in 1..Len(pairs) : pairs[i] = pair})

\* C16: in every result of the merged assembler, of the speech-only assembler
\* and in the canned result, timelineHeatmap is in ascending order of
\* timestamp and holds exactly the (timestamp, severity) pairs of
\* dissonanceFlags, each as often as the flags have it.
C16_TimelineIsFlagProjection ==
    (Gave("_convert_analysis_to_result") \/ Gave("_convert_deepgram_only_result")
        \/ Gave("_generate_mock_result")) =>
        LET flags == Pairs(Result.dissonanceFlags)
            points == Pairs(Result.timelineHeatmap)
        IN  /\ Len(points) = Len(flags)
            /\ \A i \in 1..Len(points) - 1 : points[i][1] <= points[i + 1][1]
            /\ \A i \in 1..Len(points) : Count(points[i], points) = Count(points[i], flags)
            /\ \A i \in 1..Len(flags) : Count(flags[i], points) = Count(flags[i], flags)

\* The issues of a visual payload, and whether its numbers pass the schema
\* (so that only enum values can be wrong).
RawFlagsOf(t) == Get(t, "dissonance_flags", <<>>)

NumbersValid(t) ==
    /\ \A i \in 1..Len(RawFlagsOf(t)) : Get(RawFlagsOf(t)[i], "timestamp_seconds", 0) >= 0
    /\ Get(Get(t, "metrics", EmptyDict), "eye_contact_percentage", 60) \in 0..100

\* flags is raw_flags, one flag per issue and in its order, with a type outside
\* the enum turned into EMOTIONAL_MISMATCH and a severity outside it into MEDIUM.
NormalizedFrom(flags, raw_flags) ==
    /\ Len(flags) = Len(raw_flags)
    /\ \A i \in 1..Len(flags) :
          LET type == Get(raw_flags[i], "type", "EMOTIONAL_MISMATCH")
              severity == Get(raw_flags[i], "severity", "MEDIUM")
          IN  /\ flags[i].type = (IF type \in {"EMOTIONAL_MISMATCH", "MISSING_GESTURE",
                                                "PACING_MISMATCH"}
                                  THEN type ELSE "EMOTIONAL_MISMATCH")
              /\ flags[i].severity = (IF severity \in {"HIGH", "MEDIUM", "LOW"}
                                      THEN severity ELSE "MEDIUM")

\* C20: both flag normalizers (the loop of _convert_analysis_to_result and
\* preprocess_samples._extract_flags) turn every issue of a payload whose
\* numbers are valid into a flag, with the defaults for bad enum values, and
\* the merged assembler does not raise on such a payload.
C20_BadEnumsAbsorbed ==
    /\ (/\ call # None /\ call[1].fn = "_convert_analysis_to_result"
         /\ returned # None
         /\ NumbersValid(call[1].twelvelabs_data[1]))
          => /\ returned[1].raised = None
             /\ NormalizedFrom(Result.dissonanceFlags, RawFlagsOf(call[1].twelvelabs_data[1]))
    /\ (Gave("_extract_flags") /\ NumbersValid(call[1].twelvelabs_data[1]))
          => NormalizedFrom(Result, RawFlagsOf(call[1].twelvelabs_data[1]))

----------------------------------------------------------------------------
(* Direct calls of the scorers *)

\* Largest eye-contact percentage, filler or fidget count and pace a scorer is
\* called with; each is beyond the documented range.
MaxEyeContact == 140
MaxCount == 25
MaxPace == 220

EyeSweep == -10..MaxEyeContact
FillerSweep == -5..MaxCount
FidgetSweep == -5..(MaxCount - 5)
PaceSweep == 80..MaxPace

\* Metric points <<eye, fillers, fidgets, pace>>: one metric runs through its
\* whole sweep while the others are held at a few values.
MetricPoints ==
    {<<e, f, g, p>> : e \in EyeSweep, f \in {0, 12}, g \in {0, 8}, p \in {110, 150, 170}}
    \cup {<<e, f, g, p>> : e \in {0, 62, 100}, f \in FillerSweep, g \in {0, 8},
                            p \in {110, 150, 170}}
    \cup {<<e, f, g, p>> : e \in {0, 62, 100}, f \in {0, 12}, g \in FidgetSweep,
                            p \in {110, 150, 170}}
    \cup {<<e, f, g, p>> : e \in {0, 62, 100}, f \in {0, 12}, g \in {0, 8}, p \in PaceSweep}

\* The metrics dict handed to twelvelabs_service.calculate_coherence_score.
MetricsDict(point) ==
    [eye_contact_percentage |-> point[1], filler_word_count |-> point[2],
     fidgeting_count |-> point[3], speaking_pace_wpm |-> point[4]]

\* An AnalysisMetrics, as handed to _calculate_score.
AnalysisMetrics(point) ==
    [eyeContact |-> point[1], fillerWords |-> point[2], fidgeting |-> point[3],
     speakingPace |-> point[4]]

\* Lists of up to MaxFlags flags that differ in severity only.
SeverityLists == UNION {[1..n -> {[severity |-> x] : x \in SeverityValues}] : n \in 0..MaxFlags}

\* The scorer calls over a set of metric points.
ScorerCalls(points) ==
    {[fn |-> "calculate_coherence_score", metrics |-> MetricsDict(pt), flags |-> fl] :
        pt \in points, fl \in {<<>>, <<[severity |-> "HIGH"]>>}}
    \cup {[fn |-> "calculate_coherence_score", metrics |-> m, flags |-> fl] :
            m \in {EmptyDict, MetricsDict(<<0, 25, 20, 80>>), MetricsDict(<<62, 12, 8, 150>>)},
            fl \in RawFlagLists \cup SeverityLists}
    \cup {[fn |-> "synthesis.calculate_coherence_score", eye_contact_pct |-> pt[1],
            filler_count |-> pt[2], fidget_count |-> pt[3], speaking_pace_wpm |-> pt[4],
            critical_flag_count |-> n] :
            pt \in points, n \in {-2} \cup 0..MaxFlags}
    \cup {[fn |-> "_calculate_score", metrics |-> AnalysisMetrics(pt), flags |-> fl] :
            pt \in {x \in points : AnalysisMetricsValid(AnalysisMetrics(x))},
            fl \in SeverityLists}
    \cup {[fn |-> "_convert_deepgram_only_result", deepgram_data |-> Some(DeepgramPayload(f, p, 60))] :
            f \in FillerSweep, p \in PaceSweep}

CallCalculateCoherenceScore ==
    /\ Calling("calculate_coherence_score")
    /\ Return(Returned(calculate_coherence_score(call[1].metrics, call[1].flags)))

CallSynthesisCalculateCoherenceScore ==
    /\ Calling("synthesis.calculate_coherence_score")
    /\ Return(Returned(synthesis_calculate_coherence_score(
                call[1].eye_contact_pct, call[1].filler_count, call[1].fidget_count,
                call[1].speaking_pace_wpm, call[1].critical_flag_count)))

CallCalculateScore ==
    /\ Calling("_calculate_score")
    /\ Return(Returned(_calculate_score(call[1].metrics, call[1].flags)))

ScoringNext ==
    \/ CallCalculateCoherenceScore
    \/ CallSynthesisCalculateCoherenceScore
    \/ CallCalculateScore
    \/ AssemblyNext

InitScoring == InitCall(ScorerCalls(MetricPoints) \cup AssemblerCalls \cup PreprocessCalls)

\* Every scorer on metric points inside and outside the documented ranges,
\* and every assembler that builds a score into a result.
ScoringSpec == InitScoring /\ [][ScoringNext]_vars

\* C17: every score a scorer returns is an integer from 0 to 100, whatever the
\* metrics and flags, also outside the documented ranges (eye contact below 0
\* or above 100, negative counts, any pace); and so is the coherenceScore of
\* every result an assembler returns.
C17_ScoreWithinBounds ==
    /\ \A fn \in {"calculate_coherence_score", "synthesis.calculate_coherence_score",
                   "_calculate_score"} :
          Gave(fn) => Result \in 0..100
    /\ \A fn \in {"_convert_analysis_to_result", "_convert_deepgram_only_result",
                   "_generate_mock_result", "process_video"} :
          Gave(fn) => Result.coherenceScore \in 0..100

\* C17 witness: the visual scorer was called with 140% eye contact and negative
\* counts, whose unclamped sum lies above 100, and returned 100.
C17_Witness ==
    /\ Gave("calculate_coherence_score")
    /\ call[1].metrics = MetricsDict(<<MaxEyeContact, 0, 0, 150>>)
    /\ call[1].flags = <<>>
    /\ Result = 100

\* The score of a scorer call with one argument replaced.
ScoreAt(c) ==
    IF c.fn = "calculate_coherence_score" THEN calculate_coherence_score(c.metrics, c.flags)
    ELSE IF c.fn = "synthesis.calculate_coherence_score"
    THEN synthesis_calculate_coherence_score(c.eye_contact_pct, c.filler_count,
                                             c.fidget_count, c.speaking_pace_wpm,
                                             c.critical_flag_count)
    ELSE _calculate_score(c.metrics, c.flags)

\* The call c with its eye contact, fillers, fidgets and pace moved by the
\* given steps.
Moved(c, eye, filler, fidget, pace) ==
    IF c.fn = "calculate_coherence_score"
    THEN [c EXCEPT !.metrics =
            [eye_contact_percentage |-> @.eye_contact_percentage + eye,
             filler_word_count |-> @.filler_word_count + filler,
             fidgeting_count |-> @.fidgeting_count + fidget,
             speaking_pace_wpm |-> @.speaking_pace_wpm + pace]]
    ELSE IF c.fn = "synthesis.calculate_coherence_score"
    THEN [c EXCEPT !.eye_contact_pct = @ + eye, !.filler_count = @ + filler,
                   !.fidget_count = @ + fidget, !.speaking_pace_wpm = @ + pace]
    ELSE [c EXCEPT !.metrics =
            [eyeContact |-> @.eyeContact + eye, fillerWords |-> @.fillerWords + filler,
             fidgeting |-> @.fidgeting + fidget, speakingPace |-> @.speakingPace + pace]]

\* The pace argument of a scorer call.
PaceOf(c) ==
    IF c.fn = "calculate_coherence_score" THEN c.metrics.speaking_pace_wpm
    ELSE IF c.fn = "synthesis.calculate_coherence_score" THEN c.speaking_pace_wpm
    ELSE c.metrics.speakingPace

\* The call names all four metrics (a metrics dict may leave some out).
AllMetricsGiven(c) ==
    c.fn = "calculate_coherence_score" =>
        DOMAIN c.metrics = {"eye_contact_percentage", "filler_word_count",
                            "fidgeting_count", "speaking_pace_wpm"}

\* C19: with the other arguments held fixed, one more point of eye contact
\* never lowers the returned score, one more filler or one more fidget never
\* raises it, and one more word per minute at or above 140, or one less at or
\* below 160, never raises it.
C19_ScoreMonotone ==
    \A fn \in {"calculate_coherence_score", "synthesis.calculate_coherence_score",
               "_calculate_score"} :
        Gave(fn) /\ AllMetricsGiven(call[1]) =>
            /\ ScoreAt(Moved(call[1], 1, 0, 0, 0)) >= Result
            /\ ScoreAt(Moved(call[1], 0, 1, 0, 0)) <= Result
            /\ ScoreAt(Moved(call[1], 0, 0, 1, 0)) <= Result
            /\ PaceOf(call[1]) >= 140 => ScoreAt(Moved(call[1], 0, 0, 0, 1)) <= Result
            /\ PaceOf(call[1]) <= 160 => ScoreAt(Moved(call[1], 0, 0, 0, -1)) <= Result

\* C19 witness: the synthesis scorer was called at 170 words per minute and
\* returned less than it gives for the same arguments at 160.
C19_Witness ==
    /\ Gave("synthesis.calculate_coherence_score")
    /\ call[1].speaking_pace_wpm = 170
    /\ call[1].eye_contact_pct = 62
    /\ Result < ScoreAt(Moved(call[1], 0, 0, 0, -10))
    /\ Result > ScoreAt(Moved(call[1], 0, 0, 0, 10))

\* C18: in every result stored by a run and in every result the results route
\* answers with (of an upload or of a sample, cached or not), scoreTier is
\* "Strong" for a coherenceScore of 76 or more, "Good Start" for 51 to 75 and
\* "Needs Work" below; so equal scores never carry different tiers.
C18_TierFollowsScore ==
    LET Tiered(r) ==
            r.scoreTier = IF r.coherenceScore >= 76 THEN "Strong"
                          ELSE IF r.coherenceScore >= 51 THEN "Good Start"
                          ELSE "Needs Work"
    IN  /\ \A v \in VideoIds : results_storage[v] # None => Tiered(results_storage[v][1])
        /\ (returned # None /\ returned[1].status_code = 200) => Tiered(returned[1].body)

\* C18 witness: sample -2 was asked for with nothing cached, and the answer is
\* the canned result with the sample's expected score 42 and the tier of 42.
C18_Witness ==
    /\ Asked(-2)
    /\ returned # None /\ returned[1].status_code = 200
    /\ returned[1].body = _generate_sample_result(-2, None)
    /\ returned[1].body.coherenceScore = 42
    /\ returned[1].body.scoreTier = "Needs Work"

\* C21: a result of the merged assembler, a result of the preprocessing
\* assembler and the list _extract_flags gives have at most 10 flags, however
\* many issues the visual payload lists.
C21_AtMostTenFlags ==
    /\ \A fn \in {"_convert_analysis_to_result", "process_video"} :
          Gave(fn) => Len(Result.dissonanceFlags) <= 10
    /\ Gave("_extract_flags") => Len(Result) <= 10

\* The call hands over no visual flags: no visual payload, or one whose list
\* of issues is missing or empty.
SuppliesNoFlags(c) ==
    \/ "twelvelabs_data" \notin DOMAIN c
    \/ c.twelvelabs_data = None
    \/ Get(c.twelvelabs_data[1], "dissonance_flags", <<>>) = <<>>

\* C22: an assembler that got no visual flags (and data of at least one
\* source) returns a result with at least one flag and at least one timeline
\* point.
C22_NeverWithoutFlags ==
    \A fn \in {"_convert_analysis_to_result", "_convert_deepgram_only_result", "process_video"} :
        Gave(fn) /\ SuppliesNoFlags(call[1])
                 /\ (fn = "process_video" =>
                        call[1].twelvelabs_data # None \/ call[1].deepgram_data # None) =>
            /\ Len(Result.dissonanceFlags) >= 1
            /\ Len(Result.timelineHeatmap) >= 1

\* C23: the flag synthesizer returns one flag per crossed threshold (eye
\* contact below 90, more than 3 fillers, more than 2 fidgets, pace below 130
\* or above 170), in that order, at 25%, 40%, 50% and 60% of the duration; with
\* no threshold crossed it returns one flag at 30% of the duration; it never
\* returns an empty list.
C23_OneFlagPerThreshold ==
    Gave("_generate_coaching_flags_from_metrics") =>
        LET m == call[1].metrics
            d == call[1].duration
            crossed == << m.eyeContact < 90, m.fillerWords > 3, m.fidgeting > 2,
                          m.speakingPace < 130 \/ m.speakingPace > 170 >>
            percent == <<25, 40, 50, 60>>
            hits == SelectSeq(<<1, 2, 3, 4>>, LAMBDA i : crossed[i])
        IN  /\ Len(Result) >= 1
            /\ IF hits = <<>>
               THEN Len(Result) = 1 /\ Result[1].timestamp * 100 = d * 30
               ELSE /\ Len(Result) = Len(hits)
                    /\ \A k \in 1..Len(hits) :
                          Result[k].timestamp * 100 = d * percent[hits[k]]

\* C23 witness: with 90% eye contact, 3 fillers, 2 fidgets and 130 WPM over 120
\* seconds the synthesizer returned the single tip at second 36.
C23_Witness ==
    /\ Gave("_generate_coaching_flags_from_metrics")
    /\ call[1].metrics = [eyeContact |-> 90, fillerWords |-> 3, fidgeting |-> 2,
                          speakingPace |-> 130]
    /\ call[1].duration = 120
    /\ Len(Result) = 1 /\ Result[1].timestamp = 36

\* The ids the flag synthesizer and the speech-only assembler give their flags.
SynthesizedIds ==
    {"metric-flag-" \o ToString(i) : i \in 1..4}
    \cup {"flag-filler", "flag-pace-slow", "flag-pace-fast"}

AllSynthesized(flags) == \A k \in 1..Len(flags) : flags[k].id \in SynthesizedIds

\* C24: synthesized flags carry no penalty.  A preprocessing result all of whose
\* flags were synthesized has the score its metrics give with an empty flag
\* list; a speech-only result has 70 minus the fillers (at most 20) plus the
\* pace points (15, 10 or 5), at least 30, with nothing taken off for its flags.
C24_SynthesizedFlagsNotPenalized ==
    /\ Gave("process_video") /\ AllSynthesized(Result.dissonanceFlags) =>
          Result.coherenceScore = _calculate_score(Result.metrics, <<>>)
    /\ Gave("_convert_deepgram_only_result") /\ AllSynthesized(Result.dissonanceFlags) =>
          LET m == Result.metrics
              pace == IF 140 <= m.speakingPace /\ m.speakingPace <= 160 THEN 15
                      ELSE IF 120 <= m.speakingPace /\ m.speakingPace <= 180 THEN 10 ELSE 5
          IN  Result.coherenceScore = Max(30, 70 - Min(20, m.fillerWords) + pace)

\* C24 witness: preprocessing without visual data and with 12 fillers returned
\* a result whose synthesized filler flag is HIGH and whose score has no penalty.
C24_Witness ==
    /\ Gave("process_video")
    /\ call[1].twelvelabs_data = None
    /\ Result.metrics.fillerWords = 12
    /\ \E k \in 1..Len(Result.dissonanceFlags) :
          /\ Result.dissonanceFlags[k].id \in SynthesizedIds
          /\ Result.dissonanceFlags[k].severity = "HIGH"
    /\ Result.coherenceScore = _calculate_score(Result.metrics, <<>>)
    /\ Result.coherenceScore > 0

\* C25: every flag of every assembled result (and of _extract_flags) that has
\* an endTimestamp has it at or after its timestamp, whatever timestamps the
\* visual payload reports.
C25_EndNotBeforeStart ==
    LET Ordered(flags) ==
            \A k \in 1..Len(flags) :
                flags[k].endTimestamp # None => flags[k].endTimestamp[1] >= flags[k].timestamp
    IN  /\ \A fn \in {"_convert_analysis_to_result", "_convert_deepgram_only_result",
                       "_generate_mock_result", "process_video"} :
              Gave(fn) => Ordered(Result.dissonanceFlags)
        /\ Gave("_extract_flags") => Ordered(Result)

----------------------------------------------------------------------------
(* Direct calls of the transcript segmentation *)

\* Longest word list of which every pattern of sentence ends is tried.
MaxPatternWords == 11

\* Word number i of a transcription, one second long.
WordData(i, closes) ==
    [word |-> IF closes THEN ToString(i) \o "." ELSE ToString(i),
     start |-> i - 1, end |-> i]

\* Word lists: every pattern of sentence ends up to MaxPatternWords words, and
\* longer lists with at most one sentence end.
WordLists ==
    {[i \in 1..n |-> WordData(i, i \in closing)] :
        n \in 0..MaxPatternWords, closing \in SUBSET (1..MaxPatternWords)}
    \cup {[i \in 1..n |-> WordData(i, i = c)] : n \in MaxPatternWords..MaxWords, c \in 0..MaxWords}

\* The calls that segment a transcription with the given word lists.
TranscriptCalls(lists) ==
    LET payloads == {[metrics |-> DeepgramPayload(12, 150, 95).metrics, words |-> ws] :
                        ws \in lists}
                    \cup {DeepgramPayload(12, 150, 95)}
    IN  {[fn |-> "_convert_analysis_to_result", twelvelabs_data |-> Some(GoodAnalysis),
          deepgram_data |-> d] : d \in {None} \cup {Some(x) : x \in payloads}}
        \cup {[fn |-> "_convert_deepgram_only_result", deepgram_data |-> Some(d)] :
                d \in payloads}
        \cup {[fn |-> "_extract_transcript", deepgram_data |-> d] :
                d \in {None} \cup {Some(x) : x \in payloads}}

CallExtractTranscript ==
    /\ Calling("_extract_transcript")
    /\ Return(Returned(_extract_transcript(call[1].deepgram_data)))

TranscriptNext ==
    \/ CallConvertAnalysisToResult
    \/ CallConvertDeepgramOnlyResult
    \/ CallExtractTranscript

InitTranscript == InitCall(TranscriptCalls(WordLists))

TranscriptSpec == InitTranscript /\ [][TranscriptNext]_vars

\* The words of the transcription a call hands over, as strings.
WordsGiven ==
    LET d == call[1].deepgram_data
        words == IF d = None THEN <<>> ELSE Get(d[1], "words", <<>>)
    IN  [i \in 1..Len(words) |-> words[i].word]

RECURSIVE Concatenated(_)
Concatenated(segments) ==
    IF segments = <<>> THEN <<>>
    ELSE Head(segments).text \o Concatenated(Tail(segments))

\* The segments partition the words as the rule says.
Partitions(segments, words) ==
    /\ Concatenated(segments) = words
    /\ \A k \in 1..Len(segments) :
          LET text == segments[k].text
          IN  /\ Len(text) >= 1 /\ Len(text) <= 10
              /\ k < Len(segments) => Len(text) = 10 \/ EndsSentence(text[Len(text)])
              /\ \A j \in 1..(Len(text) - 1) : ~EndsSentence(text[j])
    /\ (segments = <<>>) <=> (words = <<>>)

C27_ResultIffComplete ==
    \A v \in VideoIds :
        /\ HasStatus(v, COMPLETE) => results_storage[v] # None
        /\ HasStatus(v, ERROR) => results_storage[v] = None

\* C27 witness: one run completed with its result stored while another ended
\* in Error without one.
C27_Witness ==
    \E v, w \in VideoIds :
        /\ HasStatus(v, COMPLETE) /\ results_storage[v] = result[v] /\ result[v] # None
        /\ HasStatus(w, ERROR) /\ results_storage[w] = None

\* C28: in every status record progress is 100 exactly when the status is
\* Complete, a Queued or Error record has progress 0, and the error field is
\* set only on an Error record.
C28_RecordIsConsistent ==
    \A v \in VideoIds :
        status_storage[v] # None =>
            /\ (StatusOf(v).progress = 100) <=> (StatusOf(v).status = COMPLETE)
            /\ StatusOf(v).status \in {QUEUED, ERROR} => StatusOf(v).progress = 0
            /\ StatusOf(v).error # None => StatusOf(v).status = ERROR

\* C28 witness: a run that had reached the merge (70% was written before the
\* assembler is called) ended in an Error record with progress 0 and the
\* message, and another run is at 100% and Complete.
C28_Witness ==
    \E v, w \in VideoIds :
        /\ status_storage[v] # None
        /\ StatusOf(v) = StatusResponse(v, ERROR, 0, "Processing failed", None,
                                        Some("validation error for AnalysisMetrics"))
        /\ PastGather(v)
        /\ status_storage[w] # None
        /\ StatusOf(w).progress = 100 /\ StatusOf(w).status = COMPLETE
        /\ StatusOf(w).error = None

\* C29: the score of a merged result is what its metrics give less 10 for
\* every HIGH, 5 for every MEDIUM and 2 for every LOW flag of the result, by
\* the severity the flag is emitted with, also when the raw issue had no
\* severity or an unknown one.
C29_PenaltyMatchesShownFlags ==
    Gave("_convert_analysis_to_result") =>
        Result.coherenceScore =
            calculate_coherence_score(
                [eye_contact_percentage |-> Result.metrics.eyeContact,
                 filler_word_count |-> Result.metrics.fillerWords,
                 fidgeting_count |-> Result.metrics.fidgeting,
                 speaking_pace_wpm |-> Result.metrics.speakingPace],
                Result.dissonanceFlags)

----------------------------------------------------------------------------
(* deepgram/transcription.py: filler detection of transcribe_audio *)

\* Most words in a transcription, and most indices in a classifier answer.
MaxSpoken == 3
MaxIndices == 2

DEEPGRAM_FILLERS == {"uh", "um", "mhmm", "mm-mm", "uh-uh", "uh-huh", "nuh-uh"}

\* word.word.lower().strip(".,!?") on the words of the model.
WordClean(word) == IF word = "Uh," THEN "uh" ELSE word

\* _detect_vocal_disfluencies: the positions (from 0) of the words it marks and
\* returns, in order.
_detect_vocal_disfluencies(words) ==
    SelectSeq([i \in 1..Len(words) |-> i - 1],
              LAMBDA idx : WordClean(words[idx + 1]) \in DEEPGRAM_FILLERS)

\* _detect_contextual_fillers_with_llm from the parsed answer on: one entry
\* per index in range, as often as the index is listed; [] when the call or
\* the parsing failed.
_detect_contextual_fillers_with_llm(words, llm) ==
    IF llm.raised # None THEN <<>>
    ELSE SelectSeq(llm.value[1], LAMBDA idx : 0 <= idx /\ idx < Len(words))

\* transcribe_audio from "FILLER DETECTION" on: the words with their marks and
\* the counts of the metrics.
transcribe_audio(words, transcript, use_llm_filler_detection, llm) ==
    LET vocal_fillers == _detect_vocal_disfluencies(words)
        contextual_fillers ==
            IF use_llm_filler_detection /\ transcript # ""
            THEN _detect_contextual_fillers_with_llm(words, llm)
            ELSE <<>>
        all_fillers == vocal_fillers \o contextual_fillers
        is_filler == [i \in 1..Len(words) |->
                        \E k \in 1..Len(all_fillers) : all_fillers[k] = i - 1]
    IN  [words |-> [i \in 1..Len(words) |-> [word |-> words[i], is_filler |-> is_filler[i]]],
         metrics |->
            [filler_analysis |-> [total_count |-> Len(all_fillers),
                                  vocal_disfluency_count |-> Len(vocal_fillers),
                                  contextual_filler_count |-> Len(contextual_fillers)],
             total_words |-> Len(words),
             content_words |-> Cardinality({i \in 1..Len(words) : ~is_filler[i]})]]

\* Transcriptions of up to MaxSpoken words, with every answer of the
\* classifier of up to MaxIndices indices (also out of range, repeated, or of
\* a vocal disfluency), a failed classifier, and the classifier switched off.
TranscriptionCalls(longest) ==
    LET spoken == UNION {[1..n -> {"um", "Uh,", "like"}] : n \in 0..longest}
        answers == {Raised("LLM filler detection failed")}
                   \cup {Returned(x) : x \in UNION {[1..k -> -1..longest] : k \in 0..MaxIndices}}
    IN  {[fn |-> "transcribe_audio", words |-> w, transcript |-> t,
          use_llm_filler_detection |-> u, llm |-> a] :
            w \in spoken, t \in {"", "spoken"}, u \in BOOLEAN, a \in answers}

CallTranscribeAudio ==
    /\ Calling("transcribe_audio")
    /\ Return(Returned(transcribe_audio(call[1].words, call[1].transcript,
                                        call[1].use_llm_filler_detection, call[1].llm)))

InitTranscription == InitCall(TranscriptionCalls(MaxSpoken))

TranscriptionSpec == InitTranscription /\ [][CallTranscribeAudio]_vars

\* C30: in a transcription result the filler total_count is the number of
\* words marked is_filler, so content_words + total_count = total_words,
\* whatever indices the classifier answered; and the result with the classifier
\* skipped never has a larger total_count.
C30_FillerCountMatchesMarks ==
    Gave("transcribe_audio") =>
        LET m == Result.metrics
            marked == {i \in 1..Len(Result.words) : Result.words[i].is_filler}
            skipped == transcribe_audio(call[1].words, call[1].transcript, FALSE, call[1].llm)
        IN  /\ m.filler_analysis.total_count = Cardinality(marked)
            /\ m.content_words + m.filler_analysis.total_count = m.total_words
            /\ skipped.metrics.filler_analysis.total_count <= m.filler_analysis.total_count

====
